---- MODULE Spec2Model ----
(***************************************************************************)
(* Model of the `parallels` process-orchestration engine: App             *)
(* (src/app.rs), the main loop run_app (src/main.rs), the line-reader     *)
(* tasks of CommandRunner::spawn (src/command/runner.rs), Tab             *)
(* (src/tui/tab.rs) and OutputBuffer (src/buffer/output.rs), together     *)
(* with the part of the operating system they talk to (processes,         *)
(* process groups, pipes).                                                *)
(***************************************************************************)
EXTENDS Integers, Sequences, FiniteSets, TLC

(***************************************************************************)
(* Bounds of the model.                                                    *)
(***************************************************************************)
\* number of commands given on the command line (one tab each)
NumTabs == 2
\* number of restart requests the user issues in one run
MaxRestarts == 1
\* total number of lines all processes write to their pipes in one run
MaxLines == 2
\* capacity of the event channel (mpsc::channel(1000) in app.rs:41, scaled down)
ChannelCapacity == 2
\* max_buffer_lines handed to App::new (DEFAULT_MAX_BUFFER_LINES = 10000, scaled down)
MaxBufferLines == 2
\* terminal height minus 5, as computed at the top of the main loop
TermVisibleLines == 2
\* number of lines pushed into the buffer exercised on its own
MaxPushes == 4
\* largest max_lines that buffer is created with (0 is "unlimited")
MaxCapacity == 2
\* largest number of characters of a line that is searched
MaxTextLen == 3
\* largest number of characters of a search query
MaxQueryLen == 2
\* largest number of lines of a buffer that is searched
MaxSearchLines == 2
\* largest number of characters of all lines of a buffer that is searched
MaxSearchChars == 4

\* largest horizontal scroll offset a key scrolls to
MaxHorizontalScroll == 1
\* largest number of tabs of a TabManager exercised on its own, and of
\* next_tab and prev_tab calls made on it
MaxTabCount == 3
MaxTabCalls == 5
\* largest number of visible lines set on a tab exercised on its own, and
\* the largest number of lines pushed to it between two resets
MaxVisibleLines == 2
MaxTabPushes == 3
\* largest number of spans of a line that is highlighted on its own
MaxSpans == 2
\* largest number of highlight ranges of such a line
MaxHighlights == 2

Tabs == 0 .. (NumTabs - 1)
MaxPid == NumTabs + MaxRestarts
Pids == 1 .. MaxPid
Kinds == {"Stdout", "Stderr"}

\* the `commands` handed to App::new: command i is the i-th argument
Commands == [n \in 1 .. NumTabs |-> n - 1]

\* Option<T>: None is the empty sequence, Some(x) the one-element sequence
None == << >>
Some(x) == << x >>

VARIABLES
    pc,              \* position of the main task (run_app and the App method it awaits)
    spawn_idx,       \* loop variable tab_index of spawn_commands
    tabs,            \* TabManager.tabs
    channel,         \* events sent on event_tx and not yet received from event_rx
    children,        \* App.children: HashMap<usize, Child>
    pending_restart, \* App.pending_restart
    should_quit,     \* App.should_quit
    restart_tab,     \* argument tab_index of the running restart_process
    restart_old,     \* local `child` of restart_process (the removed handle, with a
                     \* note of whether its process was running when it was removed)
    kill_iter,       \* entries of children that kill_all has still to visit
    kill_cur,        \* entry kill_all is waiting on
    restarts,        \* number of restart requests issued so far
    next_pid,        \* next process id the operating system hands out
    proc,            \* operating-system process table
    written,         \* lines written so far to each pipe of each process
    total_written,   \* lines written so far by all processes
    reader,          \* the two line-reader tasks of each process
    obuf,            \* an OutputBuffer on its own: its lines and its max_lines
    pushed_lines,    \* every line pushed into obuf since it was created
    range,           \* arguments and result of the last get_range on obuf
    search_state,    \* SearchState: query, matches, current_index
    searched,        \* arguments of the last search call and the state it found
    last_call,       \* the last SearchState method called and what it returned
    active,          \* TabManager.active_index
    mode,            \* App.mode
    overlay,         \* arguments and result of the last overlay_highlights call
    registry         \* a TabManager exercised on its own, and the calls made on it

\* the state of the application
appvars == << pc, spawn_idx, tabs, channel, children, pending_restart, should_quit,
              restart_tab, restart_old, kill_iter, kill_cur, restarts, next_pid,
              proc, written, total_written, reader >>

\* the state outside the process engine: the buffer and the search engine
\* exercised on their own, the active tab, the highlight overlay
libvars == << obuf, pushed_lines, range, search_state, searched, last_call,
              active, mode, overlay, registry >>

vars == << appvars, libvars >>

(***************************************************************************)
(* Tab and OutputBuffer                                                    *)
(***************************************************************************)
Running == [tag |-> "Running"]
Finished(code) == [tag |-> "Finished", exit_code |-> code]
Failed(reason) == [tag |-> "Failed", reason |-> reason]

\* OutputLine::new: the line keeps its stream kind; its text is identified
\* by the process that wrote it and its position in that stream
OutputLine(p, k, n) == [kind |-> k, pid |-> p, seq |-> n]

\* OutputBuffer::new
OutputBufferNew(max_lines) == [lines |-> << >>, max_lines |-> max_lines]

\* VecDeque::pop_front: nothing happens on an empty deque
PopFront(lines) == IF lines = << >> THEN << >> ELSE Tail(lines)

\* OutputBuffer::push that evicts only once the length is above max_lines
\* (`>` for `>=`)
OutputBufferPushEvictsLate(buf, line) ==
    [buf EXCEPT !.lines =
        IF buf.max_lines > 0 /\ Len(@) > buf.max_lines
        THEN Append(PopFront(@), line)
        ELSE Append(@, line)]

\* OutputBuffer::push that takes max_lines = 0 for a capacity like any other
\* (the test `max_lines > 0` left out)
OutputBufferPushZeroCapacity(buf, line) ==
    [buf EXCEPT !.lines =
        IF Len(@) >= buf.max_lines
        THEN Append(PopFront(@), line)
        ELSE Append(@, line)]

\* OutputBuffer::push, on a buffer [lines, max_lines]
OutputBufferPush(buf, line) ==
    [buf EXCEPT !.lines =
        IF buf.max_lines > 0 /\ Len(@) >= buf.max_lines
        THEN Append(PopFront(@), line)
        ELSE Append(@, line)]

\* Iterator::skip and Iterator::take
Skip(s, n) == IF n >= Len(s) THEN << >> ELSE SubSeq(s, n + 1, Len(s))
Take(s, n) == IF n >= Len(s) THEN s ELSE SubSeq(s, 1, n)

\* OutputBuffer::get_range that takes one line too many (an inclusive end)
OutputBufferGetRangeInclusive(buf, start, count) ==
    Take(Skip(buf.lines, start), count + 1)

\* OutputBuffer::get_range
OutputBufferGetRange(buf, start, count) == Take(Skip(buf.lines, start), count)

\* OutputBuffer::push that inserts at the front (push_front for push_back)
BufferPushFront(lines, line) ==
    IF MaxBufferLines > 0 /\ Len(lines) >= MaxBufferLines
    THEN << line >> \o Tail(lines)
    ELSE << line >> \o lines

\* OutputBuffer::push on the buffer of a tab, created with max_buffer_lines
BufferPush(lines, line) ==
    OutputBufferPush([lines |-> lines, max_lines |-> MaxBufferLines], line).lines

\* OutputBuffer::clear
BufferClear(lines) == << >>

\* the smaller of two numbers
Min(a, b) == IF a <= b THEN a ELSE b

\* usize::saturating_sub
SaturatingSub(a, b) == IF a >= b THEN a - b ELSE 0

\* Tab::max_scroll_offset
MaxScrollOffset(tab) == SaturatingSub(Len(tab.buffer), tab.visible_lines)

\* Tab::scroll_to_bottom
ScrollToBottom(tab) == [tab EXCEPT !.scroll_offset = MaxScrollOffset(tab)]

\* Tab::set_visible_lines
TabSetVisibleLines(tab, lines) == [tab EXCEPT !.visible_lines = lines]

\* Tab::scroll_down
ScrollDown(tab) ==
    IF tab.scroll_offset < MaxScrollOffset(tab)
    THEN [tab EXCEPT !.scroll_offset = @ + 1]
    ELSE tab

\* Tab::scroll_up
ScrollUp(tab) == [tab EXCEPT !.scroll_offset = SaturatingSub(@, 1)]

\* Tab::scroll_half_page_down
ScrollHalfPageDown(tab) ==
    LET half_page == tab.visible_lines \div 2
    IN  [tab EXCEPT !.scroll_offset = Min(@ + half_page, MaxScrollOffset(tab))]

\* Tab::scroll_half_page_up
ScrollHalfPageUp(tab) ==
    LET half_page == tab.visible_lines \div 2
    IN  [tab EXCEPT !.scroll_offset = SaturatingSub(@, half_page)]

\* Tab::scroll_to_line
ScrollToLine(tab, line) ==
    [tab EXCEPT !.scroll_offset = Min(line, MaxScrollOffset(tab))]

\* Tab::toggle_auto_scroll
ToggleAutoScroll(tab) == [tab EXCEPT !.auto_scroll = ~@]

\* Tab::new
TabNew(command) ==
    [command |-> command, status |-> Running, buffer |-> << >>,
     scroll_offset |-> 0, horizontal_scroll |-> 0, auto_scroll |-> TRUE,
     visible_lines |-> 0]

\* Tab::set_status that also stops following the output
SetStatusStopsAutoScroll(tab, status) ==
    [tab EXCEPT !.status = status, !.auto_scroll = FALSE]

\* Tab::set_status
SetStatus(tab, status) == [tab EXCEPT !.status = status]

\* Tab::push_output that marks the tab Running again when output arrives
PushOutputRevives(tab, line) ==
    LET pushed == [tab EXCEPT !.buffer = BufferPush(tab.buffer, line),
                              !.status = Running]
    IN  IF pushed.auto_scroll THEN ScrollToBottom(pushed) ELSE pushed

\* Tab::push_output that scrolls to the bottom whatever auto_scroll is
PushOutputAlwaysScrolls(tab, line) ==
    ScrollToBottom([tab EXCEPT !.buffer = BufferPush(tab.buffer, line)])

\* Tab::push_output
PushOutput(tab, line) ==
    LET pushed == [tab EXCEPT !.buffer = BufferPush(tab.buffer, line)]
    IN  IF pushed.auto_scroll THEN ScrollToBottom(pushed) ELSE pushed

\* Tab::reset that does not clear the buffer
TabResetKeepsBuffer(tab) ==
    [tab EXCEPT !.status = Running, !.scroll_offset = 0,
                !.horizontal_scroll = 0, !.auto_scroll = TRUE]

\* Tab::reset
TabReset(tab) ==
    [tab EXCEPT !.buffer = BufferClear(tab.buffer), !.status = Running,
                !.scroll_offset = 0, !.horizontal_scroll = 0,
                !.auto_scroll = TRUE]

\* Tab::set_visible_lines for every tab, at the top of the main loop
SetVisibleLines(ts) ==
    [i \in Tabs |-> [ts[i] EXCEPT !.visible_lines = TermVisibleLines]]

(***************************************************************************)
(* AppEvent and the dispatcher                                             *)
(***************************************************************************)
OutputEvent(i, line) == [type |-> "Output", tab_index |-> i, line |-> line]
ExitedEvent(i, code) == [type |-> "Exited", tab_index |-> i, exit_code |-> code]
FailedEvent(i, reason) == [type |-> "Failed", tab_index |-> i, reason |-> reason]

\* the text of the io::Error of a failed spawn
SpawnError == "spawn failed"

\* App::handle_app_event that applies an index past the tabs to the tab
\* the index wraps to
HandleAppEventWraps(ts, ev) ==
    LET i == ev.tab_index % NumTabs
    IN  CASE ev.type = "Output" -> [ts EXCEPT ![i] = PushOutput(@, ev.line)]
          [] ev.type = "Exited" ->
                [ts EXCEPT ![i] = SetStatus(@, Finished(ev.exit_code))]
          [] ev.type = "Failed" ->
                [ts EXCEPT ![i] = SetStatus(@, Failed(ev.reason))]

\* App::handle_app_event
HandleAppEvent(ts, ev) ==
    IF ev.tab_index \notin Tabs THEN ts
    ELSE CASE ev.type = "Output" ->
                [ts EXCEPT ![ev.tab_index] = PushOutput(@, ev.line)]
           [] ev.type = "Exited" ->
                [ts EXCEPT ![ev.tab_index] = SetStatus(@, Finished(ev.exit_code))]
           [] ev.type = "Failed" ->
                [ts EXCEPT ![ev.tab_index] = SetStatus(@, Failed(ev.reason))]

\* mpsc::Receiver::recv: the oldest event leaves the channel
Recv(ch) == Tail(ch)

\* a receive that hands out the newest event of the channel
RecvEventNewest(ch) == ch[Len(ch)]

\* the event recv returns
RecvEvent(ch) == Head(ch)

\* an unbounded channel: send never waits
CanSendAlways(ch) == TRUE

\* mpsc::Sender::send completes only while the channel has room
CanSend(ch) == Len(ch) < ChannelCapacity

(***************************************************************************)
(* Operating system: processes, process groups, signals                    *)
(***************************************************************************)
NoProc == [state |-> "unused", pgid |-> 0, tab |-> 0, desc |-> "none"]

\* process group of a freshly spawned shell: process_group(0) makes the
\* shell the leader of a new group whose id is its own pid
SpawnPgid(p) == p

\* the write ends of the pipes of shell p are open while the shell or a
\* descendant that inherited them is running
WritersAlive(p) == proc[p].state = "running" \/ proc[p].desc = "alive"

\* kill(pid) in place of killpg(pid): only the shell is signalled
KillTargetsShellOnly(pr, g) ==
    {<< p, "shell" >> : p \in {q \in Pids : pr[q].state # "unused" /\ q = g}}

\* the processes a signal sent to the group g is delivered to: every shell
\* of that group and every descendant that stayed in it
KillTargets(pr, g) ==
    {<< p, "shell" >> : p \in {q \in Pids : pr[q].state # "unused" /\ pr[q].pgid = g}}
      \cup {<< p, "desc" >> : p \in {q \in Pids : pr[q].desc = "alive" /\ pr[q].pgid = g}}

\* killpg(g, SIGKILL): every process the signal is delivered to dies; a
\* shell that dies, or had exited before, stays a zombie until it is reaped;
\* with no process in the group the call fails and the error is discarded
Killpg(pr, g) ==
    [p \in Pids |->
        [pr[p] EXCEPT
            !.state = IF << p, "shell" >> \in KillTargets(pr, g) /\ @ = "running"
                      THEN "zombie" ELSE @,
            !.desc = IF << p, "desc" >> \in KillTargets(pr, g) THEN "killed" ELSE @]]

\* Child::id: None once the child has been waited for
ChildId(h) == IF h.waited THEN None ELSE Some(h.pid)

\* `if let Some(pid) = child.id() { killpg(pid, SIGKILL) }`
KillChild(pr, h) == IF ChildId(h) # None THEN Killpg(pr, h.pid) ELSE pr

\* Child::wait returns once the process has exited (at once if already waited for)
WaitReady(pr, h) == h.waited \/ pr[h.pid].state = "zombie"

\* Child::wait left out: the exited process is never reaped
ReapForgotten(pr, h) == pr

\* Child::wait reaps the exited process
Reap(pr, h) ==
    IF h.waited \/ pr[h.pid].state # "zombie" THEN pr
    ELSE [pr EXCEPT ![h.pid].state = "reaped"]

\* kill_all that visits only the first entry of the map
ChildrenValuesFirstOnly(m) == {i \in DOMAIN m : \A j \in DOMAIN m : i <= j}

\* children.values_mut(): the entries kill_all visits
ChildrenValues(m) == DOMAIN m

\* HashMap::insert / HashMap::remove on App.children
Insert(m, i, h) == [j \in (DOMAIN m) \cup {i} |-> IF j = i THEN h ELSE m[j]]
Remove(m, i) == [j \in (DOMAIN m) \ {i} |-> m[j]]

\* CommandRunner::spawn succeeded: a new shell runs for tab i in its own
\* group and its two reader tasks are started
SpawnOk(i) ==
    /\ proc' = [proc EXCEPT ![next_pid] =
                   [state |-> "running", pgid |-> SpawnPgid(next_pid), tab |-> i,
                    desc |-> "none"]]
    /\ reader' = [reader EXCEPT ![next_pid] =
                   [k \in Kinds |-> [pc |-> "read", nread |-> 0]]]
    /\ children' = Insert(children, i, [pid |-> next_pid, waited |-> FALSE])
    /\ next_pid' = next_pid + 1

(***************************************************************************)
(* Text (UTF-8 strings) and SearchState                                    *)
(***************************************************************************)
\* A text is a sequence of characters.  The characters of the model:
\* "a" and "A" (one byte each), "U+0130" (LATIN CAPITAL LETTER I WITH DOT
\* ABOVE, two bytes); lowercasing also yields "i" (one byte) and "U+0307"
\* (COMBINING DOT ABOVE, two bytes).
Chars == {"a", "A", "U+0130"}

\* char::len_utf8
LenUtf8(c) == IF c \in {"U+0130", "U+0307"} THEN 2 ELSE 1

\* char::is_uppercase
IsUppercase(c) == c \in {"A", "N", "U+0130"}

\* char::to_lowercase: U+0130 lowercases to the two characters "i" U+0307
CharToLowercase(c) ==
    CASE c = "A" -> << "a" >>
      [] c = "N" -> << "n" >>
      [] c = "U+0130" -> << "i", "U+0307" >>
      [] OTHER -> << c >>

\* str::to_lowercase
RECURSIVE ToLowercase(_)
ToLowercase(text) ==
    IF text = << >> THEN << >>
    ELSE CharToLowercase(Head(text)) \o ToLowercase(Tail(text))

\* the UTF-8 encoding of a text: byte n of character c is the pair << c, n >>
RECURSIVE Utf8(_)
Utf8(text) ==
    IF text = << >> THEN << >>
    ELSE [n \in 1 .. LenUtf8(Head(text)) |-> << Head(text), n >>] \o Utf8(Tail(text))

\* str::len (in bytes)
StrLen(text) == Len(Utf8(text))

\* str::find on the bytes of haystack and needle: the byte offset of the
\* first occurrence, None without one
Find(hay, needle) ==
    LET occ == {p \in 0 .. (Len(hay) - Len(needle)) :
                   SubSeq(hay, p + 1, p + Len(needle)) = needle}
    IN  IF occ = {} THEN None
        ELSE Some(CHOOSE p \in occ : \A q \in occ : p <= q)

\* smartcase that never looks at the query: always case-insensitive
CaseSensitiveNever(query) == FALSE

\* `query.chars().any(|c| c.is_uppercase())`
CaseSensitive(query) == \E n \in 1 .. Len(query) : IsUppercase(query[n])

\* a scan that resumes one byte after the start of a match
ResumeAtOverlapping(absolute_pos, query_len) == absolute_pos + 1

\* `start = absolute_pos + query.len()`
ResumeAt(absolute_pos, query_len) == absolute_pos + query_len

\* the `while let Some(pos) = content[start..].find(needle)` loop over one
\* line: hay is the text that is scanned, query_len is query.len()
RECURSIVE ScanLine(_, _, _, _, _)
ScanLine(hay, needle, query_len, line_idx, start) ==
    LET pos == Find(Skip(hay, start), needle)
    IN  IF pos = None THEN << >>
        ELSE LET absolute_pos == start + pos[1]
             IN  << [line |-> line_idx, start |-> absolute_pos, len |-> query_len] >>
                   \o ScanLine(hay, needle, query_len, line_idx,
                               ResumeAt(absolute_pos, query_len))

\* the matches of one line: the case-sensitive branch scans the plain text
\* for the query, the other branch the lowercased text for the lowercased
\* query; both record query.len() as the length
LineMatches(query, plain, line_idx) ==
    IF CaseSensitive(query)
    THEN ScanLine(Utf8(plain), Utf8(query), StrLen(query), line_idx, 0)
    ELSE ScanLine(Utf8(ToLowercase(plain)), Utf8(ToLowercase(query)),
                  StrLen(query), line_idx, 0)

\* `for (line_idx, line) in buffer.iter().enumerate()`, from line n on;
\* line_idx is 0-based
RECURSIVE BufferMatches(_, _, _)
BufferMatches(query, lines, n) ==
    IF n > Len(lines) THEN << >>
    ELSE LineMatches(query, lines[n], n - 1) \o BufferMatches(query, lines, n + 1)

\* a call of a SearchState method and the Option<usize> it returned (None
\* for the methods that return nothing)
Call(op, ret) == [op |-> op, ret |-> ret]
NoCall == Call("none", None)

\* SearchState::new
SearchStateNew == [query |-> << >>, matches |-> << >>, current_index |-> None]

\* SearchState::search without `self.matches.clear()`
SearchStateSearchKeepsMatches(st, query, buf) ==
    LET ms == IF query = << >> THEN st.matches
              ELSE st.matches \o BufferMatches(query, buf.lines, 1)
    IN  [query |-> query, matches |-> ms,
         current_index |-> IF query # << >> /\ ms # << >> THEN Some(0) ELSE None]

\* SearchState::search
SearchStateSearch(st, query, buf) ==
    LET ms == IF query = << >> THEN << >> ELSE BufferMatches(query, buf.lines, 1)
    IN  [query |-> query, matches |-> ms,
         current_index |-> IF ms # << >> THEN Some(0) ELSE None]

\* SearchState::clear_input that forgets the matches as well
SearchStateClearInputDropsMatches(st) ==
    [query |-> << >>, matches |-> << >>, current_index |-> None]

\* SearchState::clear_input
SearchStateClearInput(st) == [st EXCEPT !.query = << >>]

\* SearchState::handle_input: the request leaves the input with the text
\* query
SearchStateHandleInput(st, query) == [st EXCEPT !.query = query]

\* SearchState::match_count
MatchCount(st) == Len(st.matches)

\* SearchState::current_match_display
CurrentMatchDisplay(st) ==
    IF st.current_index = None THEN None ELSE Some(st.current_index[1] + 1)

\* SearchState::has_matches
HasMatches(st) == st.matches # << >>

\* SearchState::clear that keeps the current index
SearchStateClearKeepsIndex(st) ==
    [query |-> << >>, matches |-> << >>, current_index |-> st.current_index]

\* SearchState::clear
SearchStateClear(st) == [query |-> << >>, matches |-> << >>, current_index |-> None]

\* self.matches.get(index).map(|m| m.line)
MatchLine(matches, index) ==
    IF index < Len(matches) THEN Some(matches[index + 1].line) ELSE None

\* SearchState::next_match that stops at the last match
SearchStateNextMatchNoWrap(st) ==
    IF st.matches = << >> THEN [st |-> st, ret |-> None]
    ELSE LET new_index == IF st.current_index = None THEN 0
                          ELSE IF st.current_index[1] + 1 < Len(st.matches)
                               THEN st.current_index[1] + 1
                               ELSE st.current_index[1]
         IN  [st |-> [st EXCEPT !.current_index = Some(new_index)],
              ret |-> MatchLine(st.matches, new_index)]

\* SearchState::next_match: the state after the call and the value returned
SearchStateNextMatch(st) ==
    IF st.matches = << >> THEN [st |-> st, ret |-> None]
    ELSE LET new_index == IF st.current_index = None THEN 0
                          ELSE (st.current_index[1] + 1) % Len(st.matches)
         IN  [st |-> [st EXCEPT !.current_index = Some(new_index)],
              ret |-> MatchLine(st.matches, new_index)]

\* SearchState::prev_match: the state after the call and the value returned
SearchStatePrevMatch(st) ==
    IF st.matches = << >> THEN [st |-> st, ret |-> None]
    ELSE LET new_index == IF st.current_index = None THEN Len(st.matches) - 1
                          ELSE IF st.current_index[1] = 0
                               THEN Len(st.matches) - 1
                               ELSE st.current_index[1] - 1
         IN  [st |-> [st EXCEPT !.current_index = Some(new_index)],
              ret |-> MatchLine(st.matches, new_index)]

\* TabManager::new with len commands, exercised on its own: the number of
\* tabs, the active index, and the calls made since ("next", "prev")
TabManagerNew(len) == [len |-> len, active_index |-> 0, calls |-> << >>]

(***************************************************************************)
(* Rendering of the output area: styled spans and search highlights        *)
(***************************************************************************)
\* Style::default(), and a style with a foreground colour and an attribute
\* as the ANSI parser produces them
StyleDefault == [fg |-> None, bg |-> None, add_modifier |-> {}]
StyleRedBold == [fg |-> Some("Red"), bg |-> None, add_modifier |-> {"BOLD"}]

\* the style of a highlighted part: of the current match, of another match
HighlightStyle(is_current) ==
    IF is_current
    THEN [fg |-> Some("Black"), bg |-> Some("Cyan"), add_modifier |-> {}]
    ELSE [fg |-> Some("White"), bg |-> Some("DarkGray"), add_modifier |-> {}]

\* Span::styled
SpanStyled(content, style) == [content |-> content, style |-> style]

\* str::is_char_boundary
IsCharBoundary(text, index) ==
    \/ index = 0
    \/ index = StrLen(text)
    \/ index < StrLen(text) /\ Utf8(text)[index + 1][2] = 1

\* whether the slice &text[from..to] exists: it panics when from > to, when
\* to is past the end and when an end is not on a character boundary
SliceOk(text, from, to) ==
    /\ from <= to
    /\ to <= StrLen(text)
    /\ IsCharBoundary(text, from)
    /\ IsCharBoundary(text, to)

\* the characters of the slice &text[from..to]
Slice(text, from, to) ==
    LET firsts == SelectSeq(SubSeq(Utf8(text), from + 1, to), LAMBDA b : b[2] = 1)
    IN  [n \in 1 .. Len(firsts) |-> firsts[n][1]]

\* the outcome of building spans: the spans, or a panic
Built(spans) == [panic |-> FALSE, spans |-> spans]
Panicked == [panic |-> TRUE, spans |-> << >>]

\* result.push(Span::styled(text[from..to].to_string(), style)) after the
\* outcome so far; nothing is pushed when push is false
PushSlice(so_far, push, text, from, to, style) ==
    IF so_far.panic \/ ~push THEN so_far
    ELSE IF ~SliceOk(text, from, to) THEN Panicked
    ELSE Built(Append(so_far.spans, SpanStyled(Slice(text, from, to), style)))

\* `highlights.iter().filter(|h| h.start < span_end && h.end > span_start)`
Overlapping(highlights, span_start, span_end) ==
    SelectSeq(highlights, LAMBDA h : h.start < span_end /\ h.end > span_start)

\* overlay_highlights: the `for highlight in overlapping` loop of one span
\* and the part after all highlights
RECURSIVE SplitSpan(_, _, _, _, _)
SplitSpan(so_far, span, span_start, overlapping, current_pos) ==
    LET span_end == span_start + StrLen(span.content)
    IN  IF overlapping = << >>
        THEN PushSlice(so_far, current_pos < span_end, span.content,
                       current_pos - span_start, StrLen(span.content), span.style)
        ELSE LET highlight == Head(overlapping)
                 hl_start == IF highlight.start > span_start THEN highlight.start
                             ELSE span_start
                 hl_end == IF highlight.end < span_end THEN highlight.end ELSE span_end
                 before == PushSlice(so_far, current_pos < hl_start, span.content,
                                     current_pos - span_start, hl_start - span_start,
                                     span.style)
                 inside == PushSlice(before, TRUE, span.content,
                                     hl_start - span_start, hl_end - span_start,
                                     HighlightStyle(highlight.is_current))
             IN  SplitSpan(inside, span, span_start, Tail(overlapping), hl_end)

\* overlay_highlights: the `for span in spans` loop
RECURSIVE OverlaySpans(_, _, _, _)
OverlaySpans(so_far, spans, highlights, pos) ==
    IF spans = << >> \/ so_far.panic THEN so_far
    ELSE LET span == Head(spans)
             span_end == pos + StrLen(span.content)
             overlapping == Overlapping(highlights, pos, span_end)
             next == IF overlapping = << >>
                     THEN Built(Append(so_far.spans, span))
                     ELSE SplitSpan(so_far, span, pos, overlapping, pos)
         IN  OverlaySpans(next, Tail(spans), highlights, span_end)

\* overlay_highlights
OverlayHighlights(spans, highlights) ==
    IF highlights = << >> THEN Built(spans)
    ELSE OverlaySpans(Built(<< >>), spans, highlights, 0)

\* the size of the terminal, and the rows of the output area inside its
\* border: the layout gives 3 rows to the tab bar and 1 to the status bar
TermHeight == TermVisibleLines + 5
VisibleHeight == SaturatingSub(SaturatingSub(TermHeight, 4), 2)

\* SearchState::current_match
CurrentMatch(st) ==
    IF st.current_index # None /\ st.current_index[1] < Len(st.matches)
    THEN Some(st.matches[st.current_index[1] + 1])
    ELSE None

\* the HighlightRanges render_output_area builds for the line line_idx
LineHighlights(st, line_idx) ==
    LET matches == SelectSeq(st.matches, LAMBDA m : m.line = line_idx)
        current_match_line ==
            IF CurrentMatch(st) = None THEN None ELSE Some(CurrentMatch(st)[1].line)
    IN  [n \in 1 .. Len(matches) |->
            [start |-> matches[n].start, end |-> matches[n].start + matches[n].len,
             is_current |-> current_match_line = Some(line_idx)]]

\* render_output_area: the spans of the line line_idx whose plain text is
\* text (one unstyled span), after the prefix span
RenderLine(st, line_idx, text) ==
    LET base_spans == << SpanStyled(text, StyleDefault) >>
    IN  IF st.query # << >> /\ LineHighlights(st, line_idx) # << >>
        THEN OverlayHighlights(base_spans, LineHighlights(st, line_idx))
        ELSE Built(base_spans)

\* render_output_area: the 0-based indices of the lines that are drawn,
\* `.skip(scroll_offset).take(visible_height)`
RenderedLines(tab) ==
    {n \in 0 .. (Len(tab.buffer) - 1) :
        n >= tab.scroll_offset /\ n < tab.scroll_offset + VisibleHeight}

(***************************************************************************)
(* Init                                                                    *)
(***************************************************************************)
\* App::new, then run_app about to call spawn_commands
Init ==
    /\ pc = "spawn_commands"
    /\ spawn_idx = 0
    /\ tabs = [i \in Tabs |-> TabNew(Commands[i + 1])]
    /\ channel = << >>
    /\ children = << >>
    /\ pending_restart = None
    /\ should_quit = FALSE
    /\ restart_tab = None
    /\ restart_old = None
    /\ kill_iter = {}
    /\ kill_cur = None
    /\ restarts = 0
    /\ next_pid = 1
    /\ proc = [p \in Pids |-> NoProc]
    /\ written = [p \in Pids |-> [k \in Kinds |-> 0]]
    /\ total_written = 0
    /\ reader = [p \in Pids |-> [k \in Kinds |-> [pc |-> "none", nread |-> 0]]]
    /\ obuf = OutputBufferNew(MaxBufferLines)
    /\ pushed_lines = << >>
    /\ range = None
    /\ search_state = SearchStateNew
    /\ searched = None
    /\ last_call = NoCall
    /\ active = 0
    /\ mode = "Normal"
    /\ overlay = None
    /\ registry = TabManagerNew(NumTabs)

(***************************************************************************)
(* The main task                                                           *)
(***************************************************************************)
\* an end of the iteration that leaves the loop on the quit flag without
\* calling kill_all
LoopEndWithoutKillAll(ts) ==
    IF should_quit
    THEN /\ tabs' = ts
         /\ kill_iter' = kill_iter
         /\ pc' = "done"
    ELSE /\ tabs' = SetVisibleLines(ts)
         /\ kill_iter' = kill_iter
         /\ pc' = "select"

\* end of one iteration of the loop of run_app: quit check, then the top
\* of the next iteration (set_visible_lines) and the select
LoopEnd(ts) ==
    IF should_quit
    THEN /\ tabs' = ts
         /\ kill_iter' = ChildrenValues(children)
         /\ pc' = IF ChildrenValues(children) = {} THEN "done" ELSE "kill_all"
    ELSE /\ tabs' = SetVisibleLines(ts)
         /\ kill_iter' = kill_iter
         /\ pc' = "select"

\* where spawn_commands continues after tab spawn_idx has been handled
SpawnAdvance ==
    /\ spawn_idx' = spawn_idx + 1
    /\ IF spawn_idx + 1 = NumTabs
       THEN pc' = "select" /\ tabs' = SetVisibleLines(tabs)
       ELSE pc' = "spawn_commands" /\ tabs' = tabs

\* App::spawn_commands, one iteration whose spawn succeeds
SpawnCommandsOk ==
    /\ pc = "spawn_commands"
    /\ SpawnOk(spawn_idx)
    /\ SpawnAdvance
    /\ UNCHANGED libvars
    /\ UNCHANGED << channel, pending_restart, should_quit, restart_tab, restart_old,
                    kill_iter, kill_cur, restarts, written, total_written >>

\* App::spawn_commands, one iteration whose spawn fails: no handle, and
\* the task goes on to send the Failed event
SpawnCommandsErr ==
    /\ pc = "spawn_commands"
    /\ pc' = "spawn_send"
    /\ UNCHANGED libvars
    /\ UNCHANGED << spawn_idx, tabs, channel, children, pending_restart, should_quit,
                    restart_tab, restart_old, kill_iter, kill_cur, restarts,
                    next_pid, proc, written, total_written, reader >>

\* App::spawn_commands: tx.send(Failed).await completes
SpawnSendFailed ==
    /\ pc = "spawn_send"
    /\ CanSend(channel)
    /\ channel' = Append(channel, FailedEvent(spawn_idx, SpawnError))
    /\ SpawnAdvance
    /\ UNCHANGED libvars
    /\ UNCHANGED << children, pending_restart, should_quit, restart_tab, restart_old,
                    kill_iter, kill_cur, restarts, next_pid, proc, written,
                    total_written, reader >>

\* run_app: the select takes an event from the channel and dispatches it
Dispatch ==
    /\ pc = "select"
    /\ Len(channel) > 0
    /\ channel' = Recv(channel)
    /\ LoopEnd(HandleAppEvent(tabs, RecvEvent(channel)))
    /\ UNCHANGED libvars
    /\ UNCHANGED << spawn_idx, children, pending_restart, should_quit, restart_tab,
                    restart_old, kill_cur, restarts, next_pid, proc, written,
                    total_written, reader >>

\* a key handler that starts restart_process(i) itself
KeyRestartRunsInline(i) ==
    /\ pc = "select"
    /\ restarts < MaxRestarts
    /\ restarts' = restarts + 1
    /\ restart_tab' = Some(i)
    /\ IF i \in DOMAIN children
       THEN /\ restart_old' = Some([pid |-> children[i].pid,
                                  waited |-> children[i].waited,
                                  was_running |-> proc[children[i].pid].state = "running"])
            /\ children' = Remove(children, i)
            /\ proc' = KillChild(proc, children[i])
       ELSE /\ restart_old' = None
            /\ UNCHANGED << children, proc >>
    /\ pc' = "restart_wait"
    /\ UNCHANGED libvars
    /\ UNCHANGED << spawn_idx, tabs, channel, pending_restart, should_quit,
                    kill_iter, kill_cur, next_pid, written, total_written, reader >>

\* run_app: a key press whose handling calls App::request_restart(i)
KeyRestart(i) ==
    /\ pc = "select"
    /\ restarts < MaxRestarts
    /\ restarts' = restarts + 1
    /\ pending_restart' = Some(i)
    /\ pc' = "after_key"
    /\ UNCHANGED libvars
    /\ UNCHANGED << spawn_idx, tabs, channel, children, should_quit, restart_tab,
                    restart_old, kill_iter, kill_cur, next_pid, proc, written,
                    total_written, reader >>

\* run_app: Ctrl-C, handle_key calls App::quit
KeyQuit ==
    /\ pc = "select"
    /\ should_quit' = TRUE
    /\ pc' = "after_key"
    /\ UNCHANGED libvars
    /\ UNCHANGED << spawn_idx, tabs, channel, children, pending_restart, restart_tab,
                    restart_old, kill_iter, kill_cur, restarts, next_pid, proc,
                    written, total_written, reader >>

\* run_app: take_pending_restart returns None, the iteration ends
NoPendingRestart ==
    /\ pc = "after_key"
    /\ pending_restart = None
    /\ LoopEnd(tabs)
    /\ UNCHANGED libvars
    /\ UNCHANGED << spawn_idx, channel, children, pending_restart, should_quit,
                    restart_tab, restart_old, kill_cur, restarts, next_pid, proc,
                    written, total_written, reader >>

\* run_app: take_pending_restart returns Some(i); restart_process(i) removes
\* the handle of tab i, signals its group, and starts waiting
RestartBegin ==
    /\ pc = "after_key"
    /\ pending_restart # None
    /\ LET i == pending_restart[1]
       IN  /\ pending_restart' = None
           /\ restart_tab' = Some(i)
           /\ IF i \in DOMAIN children
              THEN /\ restart_old' = Some([pid |-> children[i].pid,
                                         waited |-> children[i].waited,
                                         was_running |-> proc[children[i].pid].state = "running"])
                   /\ children' = Remove(children, i)
                   /\ proc' = KillChild(proc, children[i])
              ELSE /\ restart_old' = None
                   /\ UNCHANGED << children, proc >>
    /\ pc' = "restart_wait"
    /\ UNCHANGED libvars
    /\ UNCHANGED << spawn_idx, tabs, channel, should_quit, kill_iter, kill_cur,
                    restarts, next_pid, written, total_written, reader >>

\* restart_process that returns, leaving the tab as it is, when the process
\* it signals had already exited (the error of killpg propagated)
RestartReapPropagatesError ==
    /\ pc = "restart_wait"
    /\ restart_old # None => WaitReady(proc, restart_old[1])
    /\ proc' = IF restart_old # None THEN Reap(proc, restart_old[1]) ELSE proc
    /\ IF restart_old # None /\ ~restart_old[1].was_running
       THEN /\ tabs' = tabs
            /\ pc' = "select"
            /\ restart_tab' = None
            /\ restart_old' = None
       ELSE /\ tabs' = [tabs EXCEPT ![restart_tab[1]] = TabReset(@)]
            /\ pc' = "restart_spawn"
            /\ UNCHANGED << restart_tab, restart_old >>
    /\ UNCHANGED libvars
    /\ UNCHANGED << spawn_idx, channel, children, pending_restart, should_quit,
                    kill_iter, kill_cur, restarts, next_pid, written,
                    total_written, reader >>

\* restart_process: child.wait() has returned (or there was no child); the
\* tab is reset
RestartReap ==
    /\ pc = "restart_wait"
    /\ restart_old # None => WaitReady(proc, restart_old[1])
    /\ proc' = IF restart_old # None THEN Reap(proc, restart_old[1]) ELSE proc
    /\ tabs' = [tabs EXCEPT ![restart_tab[1]] = TabReset(@)]
    /\ pc' = "restart_spawn"
    /\ UNCHANGED libvars
    /\ UNCHANGED << spawn_idx, channel, children, pending_restart, should_quit,
                    restart_tab, restart_old, kill_iter, kill_cur, restarts,
                    next_pid, written, total_written, reader >>

\* restart_process: the new spawn succeeds, restart_process returns
RestartSpawnOk ==
    /\ pc = "restart_spawn"
    /\ SpawnOk(restart_tab[1])
    /\ restart_tab' = None
    /\ restart_old' = None
    /\ LoopEnd(tabs)
    /\ UNCHANGED libvars
    /\ UNCHANGED << spawn_idx, channel, pending_restart, should_quit, kill_cur,
                    restarts, written, total_written >>

\* restart_process: the new spawn fails
RestartSpawnErr ==
    /\ pc = "restart_spawn"
    /\ pc' = "restart_send"
    /\ UNCHANGED libvars
    /\ UNCHANGED << spawn_idx, tabs, channel, children, pending_restart, should_quit,
                    restart_tab, restart_old, kill_iter, kill_cur, restarts,
                    next_pid, proc, written, total_written, reader >>

\* restart_process: tx.send(Failed).await completes, restart_process returns
RestartSendFailed ==
    /\ pc = "restart_send"
    /\ CanSend(channel)
    /\ channel' = Append(channel, FailedEvent(restart_tab[1], SpawnError))
    /\ restart_tab' = None
    /\ restart_old' = None
    /\ LoopEnd(tabs)
    /\ UNCHANGED libvars
    /\ UNCHANGED << spawn_idx, children, pending_restart, should_quit, kill_cur,
                    restarts, next_pid, proc, written, total_written, reader >>

\* App::kill_all: the next child of the map is signalled
KillAllSignal(i) ==
    /\ pc = "kill_all"
    /\ i \in kill_iter
    /\ proc' = KillChild(proc, children[i])
    /\ kill_cur' = Some(i)
    /\ pc' = "kill_wait"
    /\ UNCHANGED libvars
    /\ UNCHANGED << spawn_idx, tabs, channel, children, pending_restart, should_quit,
                    restart_tab, restart_old, kill_iter, restarts, next_pid,
                    written, total_written, reader >>

\* App::kill_all: child.wait() has returned; the handle stays in the map
KillAllWait ==
    /\ pc = "kill_wait"
    /\ LET i == kill_cur[1]
       IN  /\ WaitReady(proc, children[i])
           /\ proc' = Reap(proc, children[i])
           /\ children' = [children EXCEPT ![i].waited = TRUE]
           /\ kill_iter' = kill_iter \ {i}
           /\ pc' = IF kill_iter \ {i} = {} THEN "done" ELSE "kill_all"
    /\ kill_cur' = None
    /\ UNCHANGED libvars
    /\ UNCHANGED << spawn_idx, tabs, channel, pending_restart, should_quit,
                    restart_tab, restart_old, restarts, next_pid, written,
                    total_written, reader >>

(***************************************************************************)
(* The processes                                                           *)
(***************************************************************************)
\* the shell, or a descendant holding its pipes, writes one line
ProcWrite(p, k) ==
    /\ WritersAlive(p)
    /\ total_written < MaxLines
    /\ written' = [written EXCEPT ![p][k] = @ + 1]
    /\ total_written' = total_written + 1
    /\ UNCHANGED libvars
    /\ UNCHANGED << pc, spawn_idx, tabs, channel, children, pending_restart,
                    should_quit, restart_tab, restart_old, kill_iter, kill_cur,
                    restarts, next_pid, proc, reader >>

\* the shell exits on its own (the exit status is never read: both
\* kill_all and restart_process discard the result of child.wait())
ProcExit(p) ==
    /\ proc[p].state = "running"
    /\ proc' = [proc EXCEPT ![p].state = "zombie"]
    /\ UNCHANGED libvars
    /\ UNCHANGED << pc, spawn_idx, tabs, channel, children, pending_restart,
                    should_quit, restart_tab, restart_old, kill_iter, kill_cur,
                    restarts, next_pid, written, total_written, reader >>

\* the shell forks a descendant, which stays in the shell's process group
\* (desc: "none" no live descendant, "alive", "killed" by a group signal)
ProcFork(p) ==
    /\ proc[p].state = "running"
    /\ proc[p].desc = "none"
    /\ proc' = [proc EXCEPT ![p].desc = "alive"]
    /\ UNCHANGED libvars
    /\ UNCHANGED << pc, spawn_idx, tabs, channel, children, pending_restart,
                    should_quit, restart_tab, restart_old, kill_iter, kill_cur,
                    restarts, next_pid, written, total_written, reader >>

\* the descendant exits on its own
DescExit(p) ==
    /\ proc[p].desc = "alive"
    /\ proc' = [proc EXCEPT ![p].desc = "none"]
    /\ UNCHANGED libvars
    /\ UNCHANGED << pc, spawn_idx, tabs, channel, children, pending_restart,
                    should_quit, restart_tab, restart_old, kill_iter, kill_cur,
                    restarts, next_pid, written, total_written, reader >>

(***************************************************************************)
(* The reader tasks                                                        *)
(***************************************************************************)
\* the receiver is dropped with the App when run_app returns
ReceiverDropped == pc = "done"

\* lines.next_line().await returns Ok(Some(line))
ReaderRead(p, k) ==
    /\ reader[p][k].pc = "read"
    /\ reader[p][k].nread < written[p][k]
    /\ reader' = [reader EXCEPT ![p][k] = [pc |-> "send", nread |-> @.nread + 1]]
    /\ UNCHANGED libvars
    /\ UNCHANGED << pc, spawn_idx, tabs, channel, children, pending_restart,
                    should_quit, restart_tab, restart_old, kill_iter, kill_cur,
                    restarts, next_pid, proc, written, total_written >>

\* the line the task is sending
HeldLine(p, k) == OutputLine(p, k, reader[p][k].nread)

\* a reader task that pushes its line into the tab itself
ReaderSendDirect(p, k) ==
    /\ reader[p][k].pc = "send"
    /\ ~ReceiverDropped
    /\ tabs' = [tabs EXCEPT ![proc[p].tab] = PushOutput(@, HeldLine(p, k))]
    /\ reader' = [reader EXCEPT ![p][k].pc = "read"]
    /\ UNCHANGED libvars
    /\ UNCHANGED << pc, spawn_idx, channel, children, pending_restart, should_quit,
                    restart_tab, restart_old, kill_iter, kill_cur, restarts,
                    next_pid, proc, written, total_written >>

\* tx.send(Output).await completes: the line enters the channel
ReaderSend(p, k) ==
    /\ reader[p][k].pc = "send"
    /\ ~ReceiverDropped
    /\ CanSend(channel)
    /\ channel' = Append(channel, OutputEvent(proc[p].tab, HeldLine(p, k)))
    /\ reader' = [reader EXCEPT ![p][k].pc = "read"]
    /\ UNCHANGED libvars
    /\ UNCHANGED << pc, spawn_idx, tabs, children, pending_restart, should_quit,
                    restart_tab, restart_old, kill_iter, kill_cur, restarts,
                    next_pid, proc, written, total_written >>

\* tx.send(Output).await fails because the receiver is gone; the error is
\* discarded (`let _ =`) and the loop reads on
ReaderSendClosed(p, k) ==
    /\ reader[p][k].pc = "send"
    /\ ReceiverDropped
    /\ reader' = [reader EXCEPT ![p][k].pc = "read"]
    /\ UNCHANGED libvars
    /\ UNCHANGED << pc, spawn_idx, tabs, channel, children, pending_restart,
                    should_quit, restart_tab, restart_old, kill_iter, kill_cur,
                    restarts, next_pid, proc, written, total_written >>

\* lines.next_line().await returns Ok(None): the pipe is drained and every
\* write end is closed; the task leaves its loop and ends
ReaderDone(p, k) ==
    /\ reader[p][k].pc = "read"
    /\ reader[p][k].nread = written[p][k]
    /\ proc[p].state # "unused"
    /\ ~WritersAlive(p)

(***************************************************************************)
(* Specification                                                           *)
(***************************************************************************)
MainStep ==
    \/ SpawnCommandsOk
    \/ SpawnCommandsErr
    \/ SpawnSendFailed
    \/ Dispatch
    \/ \E i \in Tabs : KeyRestart(i)
    \/ KeyQuit
    \/ NoPendingRestart
    \/ RestartBegin
    \/ RestartReap
    \/ RestartSpawnOk
    \/ RestartSpawnErr
    \/ RestartSendFailed
    \/ \E i \in Tabs : KillAllSignal(i)
    \/ KillAllWait

ProcStep ==
    \/ \E p \in Pids, k \in Kinds : ProcWrite(p, k)
    \/ \E p \in Pids : ProcExit(p)
    \/ \E p \in Pids : ProcFork(p)
    \/ \E p \in Pids : DescExit(p)

ReaderStep ==
    \/ \E p \in Pids, k \in Kinds : ReaderRead(p, k)
    \/ \E p \in Pids, k \in Kinds : ReaderSend(p, k)
    \/ \E p \in Pids, k \in Kinds : ReaderSendClosed(p, k)

Next == MainStep \/ ProcStep \/ ReaderStep

Spec == Init /\ [][Next]_vars

\* the steps of the main task that do not wait for the user
MainProgress ==
    \/ SpawnCommandsOk
    \/ SpawnCommandsErr
    \/ SpawnSendFailed
    \/ Dispatch
    \/ NoPendingRestart
    \/ RestartBegin
    \/ RestartReap
    \/ RestartSpawnOk
    \/ RestartSpawnErr
    \/ RestartSendFailed
    \/ \E i \in Tabs : KillAllSignal(i)
    \/ KillAllWait

\* the tokio runtime polls every task that can make progress: the main task
\* and the reader tasks; key presses and the processes are under no obligation
FairSpec == Spec /\ WF_vars(MainProgress) /\ WF_vars(ReaderStep)

(***************************************************************************)
(* OutputBuffer and SearchState exercised on their own                     *)
(***************************************************************************)
\* the texts of at most n characters
TextsUpTo(n) == UNION {[1 .. m -> Chars] : m \in 0 .. n}

\* the lines pushed_lines into the buffer exercised on its own, the lines of a
\* buffer that is searched, and the queries
BufLines == TextsUpTo(1) \ {<< >>}
Texts == TextsUpTo(MaxTextLen)
Queries == TextsUpTo(MaxQueryLen)

\* the number of characters of all lines
RECURSIVE TotalChars(_)
TotalChars(lines) ==
    IF lines = << >> THEN 0 ELSE Len(Head(lines)) + TotalChars(Tail(lines))

\* OutputBuffer::new(m)
BufferNewCall(m) ==
    /\ obuf' = OutputBufferNew(m)
    /\ pushed_lines' = << >>
    /\ range' = None
    /\ UNCHANGED << search_state, searched, last_call, active, mode,
                    overlay, registry >>
    /\ UNCHANGED appvars

\* buffer.push(line)
BufferPushCall(line) ==
    /\ Len(pushed_lines) < MaxPushes
    /\ obuf' = OutputBufferPush(obuf, line)
    /\ pushed_lines' = Append(pushed_lines, line)
    /\ range' = None
    /\ UNCHANGED << search_state, searched, last_call, active, mode,
                    overlay, registry >>
    /\ UNCHANGED appvars

\* buffer.get_range(start, count)
BufferGetRangeCall(start, count) ==
    /\ range' = Some([start |-> start, count |-> count,
                      result |-> OutputBufferGetRange(obuf, start, count)])
    /\ UNCHANGED << obuf, pushed_lines, search_state, searched, last_call, active,
                    mode, overlay, registry >>
    /\ UNCHANGED appvars

BufferNext ==
    \/ \E m \in 0 .. MaxCapacity : BufferNewCall(m)
    \/ \E line \in BufLines : BufferPushCall(line)
    \/ \E start, count \in 0 .. (MaxPushes + 1) : BufferGetRangeCall(start, count)

BufferSpec == Init /\ [][BufferNext]_vars

\* the matches of old that are not among the matches of new
Dropped(old, new) ==
    {n \in 1 .. Len(old) : \A k \in 1 .. Len(new) : new[k] # old[n]}

\* search_state.search(query, &buffer); searched notes the arguments, how
\* many of the matches found before the call are not matches any more, and
\* whether the call came after a clear_input (matches without a query)
SearchCall(query) ==
    /\ search_state' = SearchStateSearch(search_state, query, obuf)
    /\ searched' = Some([query |-> query, lines |-> obuf.lines,
                         dropped |-> Cardinality(Dropped(search_state.matches,
                                                         search_state'.matches)),
                         after_clear_input |-> /\ search_state.query = << >>
                                               /\ search_state.matches # << >>])
    /\ last_call' = Call("search", None)
    /\ UNCHANGED << obuf, pushed_lines, range, active, mode, overlay, registry >>
    /\ UNCHANGED appvars

\* search_state.clear_input()
ClearInputCall ==
    /\ search_state.query # << >>
    /\ search_state' = SearchStateClearInput(search_state)
    /\ last_call' = Call("clear_input", None)
    /\ UNCHANGED << obuf, pushed_lines, range, searched, active, mode, overlay, registry >>
    /\ UNCHANGED appvars

\* buffer.push(text) on the buffer that is searched, within its bounds
SearchedBufferPushCall(text) ==
    /\ Len(pushed_lines) < MaxSearchLines
    /\ TotalChars(obuf.lines) + Len(text) <= MaxSearchChars
    /\ BufferPushCall(text)

SearchNext ==
    \/ \E text \in Texts : SearchedBufferPushCall(text)
    \/ \E query \in Queries : SearchCall(query)
    \/ ClearInputCall

SearchSpec == Init /\ [][SearchNext]_vars

(***************************************************************************)
(* SearchState navigated: searches, next_match, prev_match, clear and     *)
(* clear_input in any order over a buffer that grows                       *)
(***************************************************************************)
\* the lines and the queries of the navigated searches
NavTexts == {<< "a" >>, << "a", "a" >>, << "A", "a" >>}
NavQueries == {<< >>, << "a" >>, << "A" >>}

\* search_state.next_match()
NextMatchCall ==
    /\ search_state' = SearchStateNextMatch(search_state).st
    /\ last_call' = Call("next_match", SearchStateNextMatch(search_state).ret)
    /\ UNCHANGED << obuf, pushed_lines, range, searched, active, mode, overlay, registry >>
    /\ UNCHANGED appvars

\* search_state.prev_match()
PrevMatchCall ==
    /\ search_state' = SearchStatePrevMatch(search_state).st
    /\ last_call' = Call("prev_match", SearchStatePrevMatch(search_state).ret)
    /\ UNCHANGED << obuf, pushed_lines, range, searched, active, mode, overlay, registry >>
    /\ UNCHANGED appvars

\* search_state.clear()
ClearCall ==
    /\ search_state' = SearchStateClear(search_state)
    /\ last_call' = Call("clear", None)
    /\ searched' = None
    /\ UNCHANGED << obuf, pushed_lines, range, active, mode, overlay, registry >>
    /\ UNCHANGED appvars

\* the texts one input request can make of the text query: a character
\* typed at the end, the last character deleted, the same text
NavInputEdits(query) ==
    {Append(query, c) : c \in {d \in {"a", "A"} : Len(query) < MaxQueryLen}}
    \cup {SubSeq(query, 1, Len(query) - 1), query}

\* search_state.handle_input(req)
HandleInputCall(query) ==
    /\ query \in NavInputEdits(search_state.query)
    /\ search_state' = SearchStateHandleInput(search_state, query)
    /\ last_call' = Call("handle_input", None)
    /\ UNCHANGED << obuf, pushed_lines, range, searched, active, mode, overlay, registry >>
    /\ UNCHANGED appvars

NavNext ==
    \/ \E text \in NavTexts : SearchedBufferPushCall(text)
    \/ \E query \in TextsUpTo(MaxQueryLen) : HandleInputCall(query)
    \/ \E query \in NavQueries : SearchCall(query)
    \/ NextMatchCall
    \/ PrevMatchCall
    \/ ClearCall
    \/ ClearInputCall

NavSpec == Init /\ [][NavNext]_vars

(***************************************************************************)
(* The view: the tabs, the active tab, the mode and the search as the      *)
(* main loop changes them on events and keys.  The processes are left      *)
(* out: the events are drawn, one per iteration, from what senders can     *)
(* send, and the lines are texts.                                          *)
(***************************************************************************)
\* the variables of the process engine
procvars == << pc, spawn_idx, channel, children, pending_restart, should_quit,
               restart_tab, restart_old, kill_iter, kill_cur, restarts, next_pid,
               proc, written, total_written, reader >>

\* the texts of the lines that arrive, the exit codes, and the characters
\* typed into the search input
ViewTexts == {<< "a", "a" >>, << "U+0130" >>}
ViewExitCodes == {1}
ViewQueryChars == {"a", "n", "N"}

\* the events received: for every tab and for one index past the tabs
ViewEvents ==
    UNION {{OutputEvent(i, text) : text \in ViewTexts}
           \cup {ExitedEvent(i, code) : code \in ViewExitCodes}
           \cup {FailedEvent(i, SpawnError)} : i \in 0 .. NumTabs}

\* Tab::set_auto_scroll
SetAutoScroll(tab, enabled) == [tab EXCEPT !.auto_scroll = enabled]

\* Tab::scroll_to_top
ScrollToTop(tab) == [tab EXCEPT !.scroll_offset = 0]

\* Tab::scroll_right
ScrollRight(tab) == [tab EXCEPT !.horizontal_scroll = @ + 1]

\* TabManager::next_tab: the active index after the call, of len tabs
NextTab(index, len) == IF len # 0 THEN (index + 1) % len ELSE index

\* TabManager::prev_tab that stays on the first tab
PrevTabNoWrap(index, len) == IF len # 0 /\ index # 0 THEN index - 1 ELSE index

\* TabManager::prev_tab
PrevTab(index, len) ==
    IF len # 0 THEN (IF index = 0 THEN len - 1 ELSE index - 1) ELSE index

\* the tabs after the top of the loop (set_visible_lines)
LoopTop == SetVisibleLines(tabs)

\* the OutputBuffer of a tab
TabBuffer(tab) == [lines |-> tab.buffer, max_lines |-> MaxBufferLines]

\* App::search_in_current_tab
SearchInCurrentTab(st, ts, index, query) ==
    SearchStateSearch(st, query, TabBuffer(ts[index]))

\* the queries one key of the search mode can make of the query: a typed
\* character, a deleted character, and the same query (a cursor key)
InputEdits(query) ==
    {Append(query, c) : c \in {d \in ViewQueryChars : Len(query) < MaxQueryLen}}
    \cup {SubSeq(query, 1, Len(query) - 1), query}

\* an iteration that searches the current tab again after the event
ViewDispatchSearchesAgain(ev) ==
    /\ tabs' = HandleAppEvent(LoopTop, ev)
    /\ search_state' = SearchInCurrentTab(search_state, tabs', active,
                                          search_state.query)
    /\ UNCHANGED << obuf, pushed_lines, range, searched, last_call, active, mode,
                    overlay, registry >>
    /\ UNCHANGED procvars

\* one iteration that receives the event ev: handle_app_event
ViewDispatch(ev) ==
    /\ tabs' = HandleAppEvent(LoopTop, ev)
    /\ UNCHANGED << obuf, pushed_lines, range, search_state, searched, last_call,
                    active, mode, overlay, registry >>
    /\ UNCHANGED procvars

\* a restart whose reset keeps the horizontal scroll offset
ViewRestartKeepsScroll(i) ==
    /\ tabs' = [LoopTop EXCEPT ![i] =
                  [TabReset(@) EXCEPT !.horizontal_scroll = tabs[i].horizontal_scroll]]
    /\ UNCHANGED << obuf, pushed_lines, range, search_state, searched, last_call,
                    active, mode, overlay, registry >>
    /\ UNCHANGED procvars

\* one iteration whose key leads to restart_process(i): the tab is reset
\* (killing, waiting and spawning are the process engine's)
ViewRestart(i) ==
    /\ tabs' = [LoopTop EXCEPT ![i] = TabReset(@)]
    /\ UNCHANGED << obuf, pushed_lines, range, search_state, searched, last_call,
                    active, mode, overlay, registry >>
    /\ UNCHANGED procvars

\* Ctrl-l in Normal mode
ViewKeyNextTab ==
    /\ mode = "Normal"
    /\ active' = NextTab(active, NumTabs)
    /\ tabs' = LoopTop
    /\ UNCHANGED << obuf, pushed_lines, range, search_state, searched, last_call,
                    mode, overlay, registry >>
    /\ UNCHANGED procvars

\* Ctrl-h in Normal mode
ViewKeyPrevTab ==
    /\ mode = "Normal"
    /\ active' = PrevTab(active, NumTabs)
    /\ tabs' = LoopTop
    /\ UNCHANGED << obuf, pushed_lines, range, search_state, searched, last_call,
                    mode, overlay, registry >>
    /\ UNCHANGED procvars

\* g in Normal mode
ViewKeyScrollToTop ==
    /\ mode = "Normal"
    /\ tabs' = [LoopTop EXCEPT ![active] = ScrollToTop(@)]
    /\ UNCHANGED << obuf, pushed_lines, range, search_state, searched, last_call,
                    active, mode, overlay, registry >>
    /\ UNCHANGED procvars

\* l in Normal mode
ViewKeyScrollRight ==
    /\ mode = "Normal"
    /\ tabs[active].horizontal_scroll < MaxHorizontalScroll
    /\ tabs' = [LoopTop EXCEPT ![active] = ScrollRight(@)]
    /\ UNCHANGED << obuf, pushed_lines, range, search_state, searched, last_call,
                    active, mode, overlay, registry >>
    /\ UNCHANGED procvars

\* / in Normal mode
ViewKeySlash ==
    /\ mode = "Normal"
    /\ mode' = "Search"
    /\ tabs' = [LoopTop EXCEPT ![active] = SetAutoScroll(@, FALSE)]
    /\ UNCHANGED << obuf, pushed_lines, range, search_state, searched, last_call,
                    active, overlay, registry >>
    /\ UNCHANGED procvars

\* Esc or Enter in Search mode
ViewKeyLeaveSearch ==
    /\ mode = "Search"
    /\ mode' = "Normal"
    /\ tabs' = LoopTop
    /\ UNCHANGED << obuf, pushed_lines, range, search_state, searched, last_call,
                    active, overlay, registry >>
    /\ UNCHANGED procvars

\* n in Normal mode
ViewKeyNextMatch ==
    /\ mode = "Normal"
    /\ LET next == SearchStateNextMatch(search_state)
       IN  IF search_state.query # << >> /\ next.ret # None
           THEN /\ search_state' = next.st
                /\ tabs' = [LoopTop EXCEPT ![active] = ScrollToLine(@, next.ret[1])]
           ELSE /\ search_state' = IF search_state.query # << >> THEN next.st
                                   ELSE search_state
                /\ tabs' = LoopTop
    /\ UNCHANGED << obuf, pushed_lines, range, searched, last_call, active, mode,
                    overlay, registry >>
    /\ UNCHANGED procvars

\* N in Normal mode
ViewKeyPrevMatch ==
    /\ mode = "Normal"
    /\ LET prev == SearchStatePrevMatch(search_state)
       IN  IF search_state.query # << >> /\ prev.ret # None
           THEN /\ search_state' = prev.st
                /\ tabs' = [LoopTop EXCEPT ![active] = ScrollToLine(@, prev.ret[1])]
           ELSE /\ search_state' = IF search_state.query # << >> THEN prev.st
                                   ELSE search_state
                /\ tabs' = LoopTop
    /\ UNCHANGED << obuf, pushed_lines, range, searched, last_call, active, mode,
                    overlay, registry >>
    /\ UNCHANGED procvars

\* a Search mode in which the key n moves to the next match, as it does in
\* Normal mode
ViewKeyInputNavigates(query) ==
    /\ mode = "Search"
    /\ query \in InputEdits(search_state.query)
    /\ search_state' =
           IF query = Append(search_state.query, "n")
           THEN SearchStateNextMatch(search_state).st
           ELSE SearchInCurrentTab(search_state, LoopTop, active, query)
    /\ last_call' = Call("search", None)
    /\ tabs' = LoopTop
    /\ UNCHANGED << obuf, pushed_lines, range, searched, active, mode, overlay, registry >>
    /\ UNCHANGED procvars

\* any other key in Search mode that the input takes: handle_input, then
\* search_in_current_tab with the query it leaves
ViewKeyInput(query) ==
    /\ mode = "Search"
    /\ query \in InputEdits(search_state.query)
    /\ search_state' = SearchInCurrentTab(search_state, LoopTop, active, query)
    /\ last_call' = Call("search", None)
    /\ tabs' = LoopTop
    /\ UNCHANGED << obuf, pushed_lines, range, searched, active, mode, overlay, registry >>
    /\ UNCHANGED procvars

ViewNext ==
    \/ \E ev \in ViewEvents : ViewDispatch(ev)
    \/ \E i \in Tabs : ViewRestart(i)
    \/ ViewKeyNextTab
    \/ ViewKeyPrevTab
    \/ ViewKeyScrollToTop
    \/ ViewKeyScrollRight
    \/ ViewKeySlash
    \/ ViewKeyLeaveSearch
    \/ \E query \in TextsUpTo(MaxQueryLen) : ViewKeyInput(query)

ViewSpec == Init /\ [][ViewNext]_vars

(***************************************************************************)
(* TabManager on its own: next_tab and prev_tab on registries of any size  *)
(***************************************************************************)
\* TabManager::new(commands, _) with len commands
TabManagerNewCall(len) ==
    /\ registry' = TabManagerNew(len)
    /\ UNCHANGED << obuf, pushed_lines, range, search_state, searched, last_call,
                    active, mode, overlay >>
    /\ UNCHANGED appvars

\* tab_manager.next_tab()
NextTabCall ==
    /\ Len(registry.calls) < MaxTabCalls
    /\ registry' = [registry EXCEPT
                       !.active_index = NextTab(@, registry.len),
                       !.calls = Append(@, "next")]
    /\ UNCHANGED << obuf, pushed_lines, range, search_state, searched, last_call,
                    active, mode, overlay >>
    /\ UNCHANGED appvars

\* tab_manager.prev_tab()
PrevTabCall ==
    /\ Len(registry.calls) < MaxTabCalls
    /\ registry' = [registry EXCEPT
                       !.active_index = PrevTab(@, registry.len),
                       !.calls = Append(@, "prev")]
    /\ UNCHANGED << obuf, pushed_lines, range, search_state, searched, last_call,
                    active, mode, overlay >>
    /\ UNCHANGED appvars

TabManagerNext ==
    \/ \E len \in 0 .. MaxTabCount : TabManagerNewCall(len)
    \/ NextTabCall
    \/ PrevTabCall

TabManagerSpec == Init /\ [][TabManagerNext]_vars

(***************************************************************************)
(* The keys of the Search mode: lines with the letters n and N arrive, the *)
(* keys a, n and N and the editing keys are pressed in both modes          *)
(***************************************************************************)
\* the texts of the lines that arrive
SearchModeTexts == {<< "n", "N" >>, << "a" >>}

\* the queries the keys a, n, N and the editing keys can leave
SearchModeQueries ==
    UNION {[1 .. m -> ViewQueryChars] : m \in 0 .. MaxQueryLen}

SearchModeNext ==
    \/ \E i \in Tabs, text \in SearchModeTexts : ViewDispatch(OutputEvent(i, text))
    \/ ViewKeyNextTab
    \/ ViewKeySlash
    \/ ViewKeyLeaveSearch
    \/ ViewKeyNextMatch
    \/ ViewKeyPrevMatch
    \/ \E query \in SearchModeQueries : ViewKeyInput(query)

SearchModeSpec == Init /\ [][SearchModeNext]_vars

(***************************************************************************)
(* handle_app_event on any event: the commands are spawned, then events    *)
(* of every kind and for every index, also one past the tabs, arrive one   *)
(* at a time and are dispatched, while keys change the active tab, the     *)
(* mode and the search                                                     *)
(***************************************************************************)
\* the events that arrive: of every kind, for every tab and for one index
\* past the tabs
DispatchEvents ==
    UNION {{OutputEvent(i, << "a" >>), ExitedEvent(i, 1), FailedEvent(i, SpawnError)} :
              i \in 0 .. NumTabs}

\* a sender puts the event ev into the empty channel
EventArrives(ev) ==
    /\ pc = "select"
    /\ channel = << >>
    /\ channel' = << ev >>
    /\ UNCHANGED libvars
    /\ UNCHANGED << pc, spawn_idx, tabs, children, pending_restart, should_quit,
                    restart_tab, restart_old, kill_iter, kill_cur, restarts,
                    next_pid, proc, written, total_written, reader >>

\* a key of the main loop that changes the active tab, the mode or the
\* search
DispatchKey ==
    /\ pc = "select"
    /\ \/ ViewKeyNextTab
       \/ ViewKeySlash
       \/ ViewKeyLeaveSearch
       \/ ViewKeyInput(<< "a" >>)

DispatchNext ==
    \/ SpawnCommandsOk
    \/ SpawnCommandsErr
    \/ SpawnSendFailed
    \/ \E ev \in DispatchEvents : EventArrives(ev)
    \/ Dispatch
    \/ DispatchKey

DispatchSpec == Init /\ [][DispatchNext]_vars

(***************************************************************************)
(* Quitting: the commands are spawned, events arrive and are dispatched,   *)
(* keys enter and leave the Search mode, and Ctrl-C is pressed in either   *)
(* mode; the main task runs whenever it does not wait for a key            *)
(***************************************************************************)
\* a key of the main loop that enters or leaves the Search mode
ModeKey ==
    /\ pc = "select"
    /\ \/ ViewKeySlash
       \/ ViewKeyLeaveSearch

QuitNext ==
    \/ SpawnCommandsOk
    \/ SpawnCommandsErr
    \/ SpawnSendFailed
    \/ \E ev \in DispatchEvents : EventArrives(ev)
    \/ Dispatch
    \/ ModeKey
    \/ KeyQuit
    \/ NoPendingRestart
    \/ \E i \in Tabs : KillAllSignal(i)
    \/ KillAllWait

QuitSpec == Init /\ [][QuitNext]_vars /\ WF_vars(MainProgress)

(***************************************************************************)
(* Tab on its own: the operations of a Tab in any order, with any number   *)
(* of visible lines                                                        *)
(***************************************************************************)
\* the line pushed next to a tab: the lines of a buffer are numbered in the
\* order of their arrival since the last reset
NextLine(tab) ==
    OutputLine(1, "Stdout",
               IF tab.buffer = << >> THEN 1
               ELSE tab.buffer[Len(tab.buffer)].seq + 1)

\* the operation op on tabs[i]
TabCall(i, after) ==
    /\ tabs' = [tabs EXCEPT ![i] = after]
    /\ UNCHANGED libvars
    /\ UNCHANGED procvars

\* tab.push_output(line)
PushOutputCall(i) ==
    /\ NextLine(tabs[i]).seq <= MaxTabPushes
    /\ TabCall(i, PushOutput(tabs[i], NextLine(tabs[i])))

\* the operations of tabs[i], each a call of the method on the tab
TabNext ==
    \E i \in Tabs :
        \/ PushOutputCall(i)
        \/ \E lines \in 0 .. MaxVisibleLines :
              TabCall(i, TabSetVisibleLines(tabs[i], lines))
        \/ TabCall(i, ScrollDown(tabs[i]))
        \/ TabCall(i, ScrollUp(tabs[i]))
        \/ TabCall(i, ScrollHalfPageDown(tabs[i]))
        \/ TabCall(i, ScrollHalfPageUp(tabs[i]))
        \/ TabCall(i, ScrollToTop(tabs[i]))
        \/ TabCall(i, ScrollToBottom(tabs[i]))
        \/ \E line \in 0 .. MaxTabPushes : TabCall(i, ScrollToLine(tabs[i], line))
        \/ TabCall(i, ToggleAutoScroll(tabs[i]))
        \/ \E enabled \in BOOLEAN : TabCall(i, SetAutoScroll(tabs[i], enabled))
        \/ TabCall(i, TabReset(tabs[i]))

TabSpec == Init /\ [][TabNext]_vars

(***************************************************************************)
(* overlay_highlights on its own: called with any styled spans and any     *)
(* highlight ranges in the order and shape render_output_area builds them  *)
(***************************************************************************)
\* the spans of a line: one or more spans, each with a text and a style
OverlaySpan ==
    {SpanStyled(content, style) :
        content \in {<< "a" >>, << "a", "a" >>, << "U+0130" >>},
        style \in {StyleDefault, StyleRedBold}}
OverlaySpanSeqs == UNION {[1 .. n -> OverlaySpan] : n \in 1 .. MaxSpans}

\* the bytes of the longest line
MaxOffset == 2 * MaxSpans

\* HighlightRange: a non-empty byte range tagged current or not
OverlayRange ==
    {h \in [start : 0 .. MaxOffset, end : 0 .. MaxOffset, is_current : BOOLEAN] :
        h.start < h.end}

\* the ranges of the matches of one line: in ascending order, not
\* overlapping
OverlayRangeSeqs ==
    {hs \in UNION {[1 .. n -> OverlayRange] : n \in 0 .. MaxHighlights} :
        \A n \in 1 .. (Len(hs) - 1) : hs[n].end <= hs[n + 1].start}

\* overlay_highlights(spans, &highlights); a call does not depend on the
\* calls before it, so one call is made
OverlayCall(spans, highlights) ==
    /\ overlay = None
    /\ overlay' = Some([spans |-> spans, highlights |-> highlights,
                        result |-> OverlayHighlights(spans, highlights)])
    /\ UNCHANGED << obuf, pushed_lines, range, search_state, searched, last_call,
                    active, mode, registry >>
    /\ UNCHANGED appvars

OverlayNext ==
    \E spans \in OverlaySpanSeqs, highlights \in OverlayRangeSeqs :
        OverlayCall(spans, highlights)

OverlaySpec == Init /\ [][OverlayNext]_vars

(***************************************************************************)
(* Properties                                                              *)
(***************************************************************************)
\* the processes spawned for tab i that exist (spawned and not yet reaped:
\* kill(pid, 0) succeeds for them)
LiveProcs(pr, i) == {p \in Pids : pr[p].tab = i /\ pr[p].state \in {"running", "zombie"}}

\* the main task is inside restart_process, past the wait for the old child
RestartPastWait == pc \in {"restart_spawn", "restart_send"}

\* C1: every tab has at most one live (spawned and not yet reaped) process;
\* when restart_process is about to spawn, the handle of the tab has been
\* removed from children and no process of the tab is left unreaped.
C1_OneLiveProcessPerTab ==
    /\ \A i \in Tabs : Cardinality(LiveProcs(proc, i)) <= 1
    /\ RestartPastWait =>
          /\ restart_tab[1] \notin DOMAIN children
          /\ LiveProcs(proc, restart_tab[1]) = {}

\* C1 witness: a tab whose first process has been reaped by a restart and
\* whose second process is running and tracked.
C1_Witness ==
    \E i \in DOMAIN children : \E p \in Pids :
        /\ p # children[i].pid
        /\ proc[p].tab = i /\ proc[p].state = "reaped"
        /\ proc[children[i].pid].state = "running"

\* the step in which restart_process returns
RestartReturns == RestartPastWait /\ pc' \notin {"restart_spawn", "restart_send"}

\* what restart_process(i) leaves behind, whatever the outcome of the spawn
RestartCommonPost(i, old) ==
    /\ proc'[old].state = "reaped"
    /\ tabs'[i].buffer = << >>
    /\ tabs'[i].status = Running

\* C2 as stated: whenever restart_process(i) returns for a tab whose tracked
\* process was running, the old process is gone, a new handle with another
\* pid is tracked for i, the buffer is empty and the status is Running.
C2_RestartAlwaysRespawns ==
    [][ (RestartReturns /\ restart_old # None /\ restart_old[1].was_running) =>
            LET i == restart_tab[1]
                old == restart_old[1].pid
            IN  /\ RestartCommonPost(i, old)
                /\ i \in DOMAIN children'
                /\ children'[i].pid # old
      ]_vars

\* C2 amended: as above when the new spawn succeeds (the new process then
\* exists); when the new spawn fails no handle is tracked for i, and the
\* other three results still hold.
C2_RestartPostcondition ==
    [][ (RestartReturns /\ restart_old # None /\ restart_old[1].was_running) =>
            LET i == restart_tab[1]
                old == restart_old[1].pid
            IN  /\ RestartCommonPost(i, old)
                /\ IF pc = "restart_spawn"
                   THEN /\ i \in DOMAIN children'
                        /\ children'[i].pid # old
                        /\ proc'[children'[i].pid].state = "running"
                   ELSE i \notin DOMAIN children'
      ]_vars

\* C2 witness: restart_process has reaped the old process of a tab, which
\* was running and had produced output when the restart began, has reset
\* the tab, and is about to spawn and return.
C2_Witness ==
    /\ pc = "restart_spawn"
    /\ restart_old # None /\ restart_old[1].was_running
    /\ reader[restart_old[1].pid]["Stdout"].nread > 0
    /\ tabs[restart_tab[1]].buffer = << >>

\* C3: when kill_all has returned, no process tracked in children exists any
\* more: each one has been signalled and reaped.
C3_KillAllReapsAll ==
    pc = "done" => \A i \in DOMAIN children : proc[children[i].pid].state = "reaped"

\* C3 witness: kill_all has returned with every tab tracked.
C3_Witness == pc = "done" /\ DOMAIN children = Tabs

StatusEdge(old, new) ==
    \/ old.tag = "Running" /\ new.tag \in {"Finished", "Failed"}
    \/ old.tag \in {"Finished", "Failed"} /\ new.tag = "Running"

ExitedWhileRunning(i) ==
    /\ pc = "select"
    /\ i \in DOMAIN children
    /\ proc[children[i].pid].state = "zombie"
    /\ tabs[i].status = Running

\* C6: once the process of a Running tab has exited, and as long as the main
\* loop does nothing but dispatch events (no key press, hence no restart and
\* no quit), the status of the tab eventually becomes Finished.
C6_ExitLeadsToFinished ==
    \A i \in Tabs :
        ExitedWhileRunning(i) ~> (tabs[i].status.tag = "Finished" \/ pc # "select")

\* the spawn for tab i has just failed and the Failed event is to be sent
SpawnFailing(i) ==
    \/ pc = "spawn_send" /\ spawn_idx = i
    \/ pc = "restart_send" /\ restart_tab = Some(i)

\* C7: when the spawn for tab i fails no handle is registered for i, and the
\* Failed event is emitted and dispatched, so that the status of tab i
\* eventually becomes Failed (unless the user quits first).
C7_SpawnFailureReported ==
    /\ [](\A i \in Tabs : SpawnFailing(i) => i \notin DOMAIN children)
    /\ \A i \in Tabs :
          SpawnFailing(i) ~> (tabs[i].status.tag = "Failed" \/ should_quit)

\* the buffer or the status of tab i is written in this step
TabWritten(i) ==
    \/ tabs'[i].buffer # tabs[i].buffer
    \/ tabs'[i].status # tabs[i].status

\* this step is the main loop receiving one event and dispatching it
DispatchStep == pc = "select" /\ Len(channel) > 0 /\ channel' = Recv(channel)

\* this step is the reset of tab i inside restart_process
ResetStep(i) == pc = "restart_wait" /\ restart_tab = Some(i)

\* C8 as stated: the buffer and the status of a tab are written only by the
\* dispatcher (handle_app_event).
C8_OnlyDispatcherWrites ==
    [][ \A i \in Tabs : TabWritten(i) => DispatchStep ]_vars

\* C8 amended: the buffer and the status of tab i are written only by the
\* main task, either dispatching an event addressed to i or resetting i in
\* restart_process; reader tasks and all other steps leave them alone.
C8_OnlyMainTaskWrites ==
    [][ \A i \in Tabs :
            TabWritten(i) =>
                \/ DispatchStep /\ RecvEvent(channel).tab_index = i
                \/ ResetStep(i)
      ]_vars

\* C8 witness: restart_process is about to reset a tab into whose buffer the
\* dispatcher has pushed_lines output.
C8_Witness ==
    /\ pc = "restart_wait"
    /\ Len(tabs[restart_tab[1]].buffer) > 0

\* C9: in every buffer, the lines of one stream of one process appear in the
\* order in which the process wrote them.
C9_StreamOrder ==
    \A i \in Tabs :
        \A a, b \in 1 .. Len(tabs[i].buffer) :
            (/\ a < b
             /\ tabs[i].buffer[a].pid = tabs[i].buffer[b].pid
             /\ tabs[i].buffer[a].kind = tabs[i].buffer[b].kind)
                => tabs[i].buffer[a].seq < tabs[i].buffer[b].seq

\* C9 witness: a buffer holds two lines of the same stream of one process.
C9_Witness ==
    \E i \in Tabs :
        /\ Len(tabs[i].buffer) = 2
        /\ tabs[i].buffer[1].pid = tabs[i].buffer[2].pid
        /\ tabs[i].buffer[1].kind = tabs[i].buffer[2].kind

\* C10: the channel never holds more events than its capacity; a reader
\* task that holds a line keeps it until the channel has room, and the line
\* then enters the channel (it is never dropped while the receiver lives).
C10_BoundedChannel ==
    /\ [](Len(channel) <= ChannelCapacity)
    /\ [][ \A p \in Pids, k \in Kinds :
              (reader[p][k].pc = "send" /\ ~ReceiverDropped) =>
                  \/ reader'[p][k] = reader[p][k]
                  \/ /\ Len(channel) < ChannelCapacity
                     /\ channel' = Append(channel, OutputEvent(proc[p].tab, HeldLine(p, k)))
         ]_vars

\* C10 witness: the channel is full and a reader task is suspended in send
\* with its line.
C10_Witness ==
    /\ pc = "select"
    /\ Len(channel) = ChannelCapacity
    /\ \E p \in Pids, k \in Kinds : reader[p][k].pc = "send"

\* the effect of applying event ev to the tabs, once
EventApplied(ev) ==
    LET i == ev.tab_index
    IN  IF i \notin Tabs
        THEN \A j \in Tabs : tabs'[j].buffer = tabs[j].buffer /\ tabs'[j].status = tabs[j].status
        ELSE /\ \A j \in Tabs \ {i} :
                   tabs'[j].buffer = tabs[j].buffer /\ tabs'[j].status = tabs[j].status
             /\ ev.type = "Output" =>
                   /\ tabs'[i].status = tabs[i].status
                   /\ \/ tabs'[i].buffer = Append(tabs[i].buffer, ev.line)
                      \/ /\ tabs[i].buffer # << >>
                         /\ tabs'[i].buffer = Append(Tail(tabs[i].buffer), ev.line)
             /\ ev.type = "Failed" =>
                   /\ tabs'[i].status = Failed(ev.reason)
                   /\ tabs'[i].buffer = tabs[i].buffer
             /\ ev.type = "Exited" =>
                   /\ tabs'[i].status = Finished(ev.exit_code)
                   /\ tabs'[i].buffer = tabs[i].buffer

\* C11: the channel changes only by a send, which appends one event behind
\* those queued, or by the main loop at its select taking the oldest event,
\* which is applied to the tabs once in that same step; a step that takes a
\* key instead leaves every queued event in place.  So no event leaves the
\* channel unapplied, none is applied twice, and events are applied in the
\* order in which they were sent.
C11_ExactlyOnceFifo ==
    [][ /\ channel' # channel =>
              \/ /\ Len(channel') = Len(channel) + 1
                 /\ SubSeq(channel', 1, Len(channel)) = channel
                 /\ \A i \in Tabs : ~TabWritten(i)
              \/ /\ pc = "select"
                 /\ channel # << >>
                 /\ channel' = Tail(channel)
                 /\ EventApplied(Head(channel))
        /\ (pc = "select" /\ pc' = "after_key") => channel' = channel
      ]_vars

\* C11 witness: a key press has won the select while two different events
\* were queued, and both are still in the channel.
C11_Witness ==
    /\ pc = "after_key"
    /\ Len(channel) = 2
    /\ channel[1] # channel[2]

\* tab i has a handle: in children, or in the hands of restart_process,
\* which has taken it out of children and is waiting for its process
HandleHeld(i) ==
    \/ i \in DOMAIN children
    \/ pc = "restart_wait" /\ restart_tab = Some(i) /\ restart_old # None

\* C12: tab i has a handle exactly while a process spawned for i has not
\* been reaped; in particular no handle is tracked for a reaped process.
C12_TrackedIffUnreaped ==
    \A i \in Tabs : HandleHeld(i) <=> LiveProcs(proc, i) # {}

\* C13: a reader task whose send finds the receiver dropped stops there: it
\* does not go back to reading its pipe.  (The other half of the claim, that
\* the task ends when its pipe is closed and drained, is ReaderDone.)
C13_ReaderStopsOnSendError ==
    [][ \A p \in Pids, k \in Kinds :
            (reader[p][k].pc = "send" /\ ReceiverDropped) => reader'[p][k].pc # "read"
      ]_vars

\* the last n elements of a sequence of at least n elements
LastN(s, n) == SubSeq(s, Len(s) - n + 1, Len(s))

\* C14: a buffer with max_lines > 0 never holds more than max_lines lines,
\* and once more than max_lines lines have been pushed it holds exactly the
\* max_lines most recently pushed lines, in the order they were pushed.
C14_FifoEviction ==
    obuf.max_lines > 0 =>
        /\ Len(obuf.lines) <= obuf.max_lines
        /\ Len(pushed_lines) > obuf.max_lines =>
              /\ Len(obuf.lines) = obuf.max_lines
              /\ obuf.lines = LastN(pushed_lines, obuf.max_lines)

\* C14 witness: a buffer of two lines into which four lines were pushed, the
\* second pair differing from the first.
C14_Witness ==
    /\ obuf.max_lines = 2
    /\ Len(pushed_lines) = 4
    /\ pushed_lines[1] # pushed_lines[3]
    /\ pushed_lines[3] # pushed_lines[4]

\* C15: get_range(start, count) returns the k lines at the (0-based) indices
\* start .. start+k-1, in buffer order, where k = min(count, len - start) if
\* start < len and k = 0 otherwise; the call leaves the buffer as it was.
C15_GetRangeClipped ==
    /\ [](range # None =>
            LET start == range[1].start
                count == range[1].count
                result == range[1].result
                len == Len(obuf.lines)
                k == IF start < len THEN Min(count, len - start) ELSE 0
            IN  /\ Len(result) = k
                /\ \A j \in 1 .. k : result[j] = obuf.lines[start + j])
    /\ [][ (range' # range /\ range' # None) =>
               (obuf' = obuf /\ pushed_lines' = pushed_lines) ]_vars

\* C15 witness: a range that starts inside the buffer and runs past its end
\* has been asked for, and the lines up to the end were returned.
C15_Witness ==
    /\ range # None
    /\ Len(obuf.lines) = 2
    /\ range[1].start = 1
    /\ range[1].count = 3
    /\ Len(range[1].result) = 1

\* C16: a buffer created with max_lines = 0 never evicts: it holds every
\* line pushed, in the order they were pushed.
C16_UnlimitedWhenZero ==
    obuf.max_lines = 0 =>
        /\ Len(obuf.lines) = Len(pushed_lines)
        /\ obuf.lines = pushed_lines

\* C16 witness: MaxPushes lines, not all equal, have been pushed into a
\* buffer created with max_lines = 0.
C16_Witness ==
    /\ obuf.max_lines = 0
    /\ Len(pushed_lines) = MaxPushes
    /\ pushed_lines[1] # pushed_lines[MaxPushes]

\* the query has an uppercase character
HasUppercase(query) == \E n \in 1 .. Len(query) : query[n] \in {"A", "U+0130"}

\* the byte offsets at which needle occurs in hay
Occurrences(hay, needle) ==
    {p \in 0 .. (Len(hay) - Len(needle)) : SubSeq(hay, p + 1, p + Len(needle)) = needle}

\* the matches recorded for the (0-based) line l
MatchesOnLine(ms, l) == {n \in 1 .. Len(ms) : ms[n].line = l}

\* C17: smartcase, line by line.  For a query without an uppercase character
\* a line has a match exactly if it contains the query up to case; for a
\* query with an uppercase character a line has a match exactly if it
\* contains the query itself, and every match is then an exact-case
\* occurrence of the query in the line.
C17_Smartcase ==
    (searched # None /\ searched[1].query # << >>) =>
        LET query == searched[1].query
            lines == searched[1].lines
            ms == search_state.matches
        IN  \A l \in 1 .. Len(lines) :
                IF HasUppercase(query)
                THEN /\ MatchesOnLine(ms, l - 1) # {} <=>
                            Occurrences(Utf8(lines[l]), Utf8(query)) # {}
                     /\ \A n \in MatchesOnLine(ms, l - 1) :
                            SubSeq(Utf8(lines[l]), ms[n].start + 1,
                                   ms[n].start + ms[n].len) = Utf8(query)
                ELSE MatchesOnLine(ms, l - 1) # {} <=>
                        Occurrences(Utf8(ToLowercase(lines[l])),
                                    Utf8(ToLowercase(query))) # {}

\* C17 witness: the query "a" was searched in the line "Aa" and both
\* characters matched.
C17_Witness ==
    /\ searched # None
    /\ searched[1].query = << "a" >>
    /\ searched[1].lines = << << "A", "a" >> >>
    /\ Len(search_state.matches) = 2

\* the text of a line that search scans for query, and what it scans for:
\* the line and the query themselves when the query has an uppercase
\* character, their lowercased forms otherwise
Scanned(query, text) ==
    IF HasUppercase(query) THEN Utf8(text) ELSE Utf8(ToLowercase(text))

\* ms lists, for every line in buffer order, the leftmost-first
\* non-overlapping occurrences of the query in the scanned text of the line
\* in increasing offset: a match is an occurrence, and an occurrence is a
\* match unless it starts inside an earlier match of its line
IsMatchListOf(ms, query, lines) ==
    /\ \A n \in 1 .. Len(ms) :
          /\ ms[n].line \in 0 .. (Len(lines) - 1)
          /\ ms[n].len = StrLen(query)
    /\ \A n \in 1 .. (Len(ms) - 1) :
          \/ ms[n].line < ms[n + 1].line
          \/ /\ ms[n].line = ms[n + 1].line
             /\ ms[n + 1].start >= ms[n].start + ms[n].len
    /\ \A l \in 1 .. Len(lines) :
          LET starts == {ms[n].start : n \in MatchesOnLine(ms, l - 1)}
              occ == Occurrences(Scanned(query, lines[l]), Scanned(query, query))
          IN  /\ starts \subseteq occ
              /\ Cardinality(starts) = Cardinality(MatchesOnLine(ms, l - 1))
              /\ \A p \in occ :
                    p \in starts <=>
                        ~\E q \in starts : q < p /\ p < q + StrLen(query)

C19_MatchOffsetsInPlainText ==
    searched # None =>
        \A n \in 1 .. Len(search_state.matches) :
            LET m == search_state.matches[n]
                query == searched[1].query
                text == searched[1].lines[m.line + 1]
            IN  \E i \in 1 .. (Len(text) + 1) : \E j \in (i - 1) .. Len(text) :
                    /\ StrLen(SubSeq(text, 1, i - 1)) = m.start
                    /\ StrLen(SubSeq(text, i, j)) = m.len
                    /\ \/ SubSeq(text, i, j) = query
                       \/ /\ ~HasUppercase(query)
                          /\ ToLowercase(SubSeq(text, i, j)) = ToLowercase(query)

\* C20: a search replaces the whole match list by the matches of its query
\* in its buffer; with an empty query the list is empty and the current
\* index None; otherwise the current index is Some(0) if there is a match
\* and None if there is none.
C20_SearchReplacesMatches ==
    searched # None =>
        LET query == searched[1].query
            ms == search_state.matches
        IN  /\ query = << >> => (ms = << >> /\ search_state.current_index = None)
            /\ query # << >> => IsMatchListOf(ms, query, searched[1].lines)
            /\ search_state.current_index = IF ms # << >> THEN Some(0) ELSE None

\* C20 witness: a search made after clear_input, when matches of the query
\* before were still listed, has found matches and dropped old ones.
C20_Witness ==
    /\ searched # None
    /\ searched[1].after_clear_input
    /\ searched[1].dropped > 0
    /\ search_state.matches # << >>
\* the step is a call of the SearchState method op (a call that changes
\* neither the state nor what was last called is a stuttering step)
NavStep(op) ==
    /\ last_call'.op = op
    /\ << last_call, search_state >>' # << last_call, search_state >>

\* C21: with current index i and n >= 1 matches next_match moves to
\* (i + 1) mod n and prev_match to i - 1, or to n - 1 when i is 0; each
\* returns the line of the new current match; with no matches both return
\* None and leave the state as it was
C21_NavigationWraps ==
    [][LET n == Len(search_state.matches)
           i == search_state.current_index
           Moved(new) ==
               /\ search_state' = [search_state EXCEPT !.current_index = Some(new)]
               /\ last_call'.ret = Some(search_state.matches[new + 1].line)
       IN  /\ NavStep("next_match") /\ n >= 1 /\ i # None => Moved((i[1] + 1) % n)
           /\ NavStep("prev_match") /\ n >= 1 /\ i # None
                  => Moved(IF i[1] = 0 THEN n - 1 ELSE i[1] - 1)
           /\ (NavStep("next_match") \/ NavStep("prev_match")) /\ n = 0
                  => last_call'.ret = None /\ search_state' = search_state]_vars

\* next_match has wrapped from the last of three or more matches to the
\* first, which is on the first line while other matches are on the second
C21_Witness ==
    /\ last_call = Call("next_match", Some(0))
    /\ search_state.current_index = Some(0)
    /\ Len(search_state.matches) >= 3
    /\ search_state.matches[Len(search_state.matches)].line = 1

Rendered(line_idx) ==
    RenderLine(search_state, line_idx, tabs[active].buffer[line_idx + 1])

\* the highlight ranges rendering applies to the line line_idx of the
\* active tab: those that overlap its text, clipped to it
AppliedHighlights(line_idx) ==
    IF search_state.query = << >> THEN {}
    ELSE LET text == tabs[active].buffer[line_idx + 1]
             hs == LineHighlights(search_state, line_idx)
         IN  {[start |-> hs[n].start,
               end |-> IF hs[n].end < StrLen(text) THEN hs[n].end ELSE StrLen(text)] :
                 n \in {k \in 1 .. Len(hs) : hs[k].start < StrLen(text)
                                             /\ hs[k].end > 0}}

\* C24: in every state every highlight range that rendering applies to a
\* drawn line of the active tab starts and ends on a codepoint boundary of
\* that line's text, and building the line's spans does not panic
C24_HighlightsOnBoundaries ==
    \A line_idx \in RenderedLines(tabs[active]) :
        /\ \A h \in AppliedHighlights(line_idx) :
              /\ IsCharBoundary(tabs[active].buffer[line_idx + 1], h.start)
              /\ IsCharBoundary(tabs[active].buffer[line_idx + 1], h.end)
        /\ ~Rendered(line_idx).panic

\* C23: a step that changes the buffer of a tab (an Output event, with or
\* without eviction, or the reset of a restart) leaves the query, the
\* matches and the current index of the SearchState as they were
C23_BufferMutationKeepsSearch ==
    [][(\E i \in Tabs : tabs'[i].buffer # tabs[i].buffer)
          => search_state' = search_state]_vars

\* a match on the first line is kept although the first line of every tab
\* no longer contains the query: the buffer that was searched has changed
C23_Witness ==
    /\ search_state.query = << "a" >>
    /\ \E n \in 1 .. Len(search_state.matches) : search_state.matches[n].line = 0
    /\ \A i \in Tabs : /\ tabs[i].buffer # << >>
                        /\ tabs[i].buffer[1] = << "U+0130" >>

\* C27: a step that makes tab i Finished or Failed (the dispatch of an
\* Exited or Failed event) changes nothing but the status of tab i: the
\* buffer, the scroll offsets and auto_scroll of the tab, the other tabs,
\* the active tab, the mode and the search stay as they were
C27_StatusEventsChangeOnlyStatus ==
    [][\A i \in Tabs :
          /\ tabs'[i].status # tabs[i].status
          /\ tabs'[i].status.tag \in {"Finished", "Failed"}
          => /\ tabs' = [SetVisibleLines(tabs) EXCEPT ![i].status = tabs'[i].status]
             /\ << search_state, active, mode >>' = << search_state, active, mode >>]_vars

\* a Failed tab and a Finished tab that keep their output, one of them
\* scrolled to the right and not following the output
C27_Witness ==
    /\ tabs[0].status = Failed(SpawnError)
    /\ Len(tabs[0].buffer) = 2
    /\ tabs[0].horizontal_scroll = 1
    /\ ~tabs[0].auto_scroll
    /\ tabs[1].status = Finished(1)
    /\ tabs[1].buffer # << >>

\* a step resets tab i: only a reset makes a tab Running again, empties a
\* buffer, lowers the horizontal offset or turns auto_scroll on
TabResetStep(i) ==
    \/ tabs'[i].status = Running /\ tabs[i].status # Running
    \/ tabs'[i].buffer = << >> /\ tabs[i].buffer # << >>
    \/ tabs'[i].horizontal_scroll < tabs[i].horizontal_scroll
    \/ tabs'[i].auto_scroll /\ ~tabs[i].auto_scroll

\* C30: every tab starts Running; no step adds, removes or reorders tabs
\* or changes a command; a reset empties the buffer, sets the status to
\* Running, both scroll offsets to 0 and auto_scroll to true, and leaves
\* the command and visible_lines (as set at the top of the loop) alone
C30_TabsFixedAndReset ==
    /\ DOMAIN tabs = Tabs
    /\ \A i \in Tabs : tabs[i].status = Running /\ tabs[i].command = Commands[i + 1]
    /\ [][/\ DOMAIN tabs' = Tabs
           /\ \A i \in Tabs :
                /\ tabs'[i].command = Commands[i + 1]
                /\ TabResetStep(i)
                    => tabs'[i] = [command |-> tabs[i].command,
                                   status |-> Running,
                                   buffer |-> << >>,
                                   scroll_offset |-> 0,
                                   horizontal_scroll |-> 0,
                                   auto_scroll |-> TRUE,
                                   visible_lines |-> SetVisibleLines(tabs)[i].visible_lines]]_vars

\* a search has found matches, which needs a tab with output that stopped
\* following it when the search mode was entered; now every tab is empty,
\* Running and following the output again: that tab has been reset
C30_Witness ==
    /\ search_state.matches # << >>
    /\ mode = "Normal"
    /\ \A i \in Tabs : /\ tabs[i].buffer = << >>
                        /\ tabs[i].status = Running
                        /\ tabs[i].auto_scroll
                        /\ tabs[i].horizontal_scroll = 0
                        /\ tabs[i].visible_lines = TermVisibleLines

\* the number of bytes of the texts of spans
RECURSIVE SpansLen(_)
SpansLen(spans) ==
    IF spans = << >> THEN 0 ELSE StrLen(Head(spans).content) + SpansLen(Tail(spans))

\* the texts of spans, joined
RECURSIVE SpansText(_)
SpansText(spans) ==
    IF spans = << >> THEN << >> ELSE Head(spans).content \o SpansText(Tail(spans))

\* the span of spans that holds the byte at offset
SpanAt(spans, offset) ==
    spans[CHOOSE n \in 1 .. Len(spans) :
             /\ SpansLen(SubSeq(spans, 1, n - 1)) <= offset
             /\ offset < SpansLen(SubSeq(spans, 1, n))]

\* C25: after overlay_highlights has returned, the result has the text of
\* the spans; a result span outside every highlight has the style of the
\* span it came from; a result span inside a highlight has the highlight
\* background (one colour for the current match, another for the others)
\* and the foreground colour and the attributes of the span it came from
C25_OverlayKeepsForeground ==
    overlay # None /\ ~overlay[1].result.panic =>
        LET spans == overlay[1].spans
            highlights == overlay[1].highlights
            result == overlay[1].result.spans
        IN  /\ SpansText(result) = SpansText(spans)
            /\ \A k \in 1 .. Len(result) :
                  LET offset == SpansLen(SubSeq(result, 1, k - 1))
                      from == SpanAt(spans, offset)
                      inside == {n \in 1 .. Len(highlights) :
                                    /\ highlights[n].start <= offset
                                    /\ offset < highlights[n].end}
                  IN  IF inside = {}
                      THEN result[k].style = from.style
                      ELSE /\ \A n \in inside :
                                result[k].style.bg =
                                    HighlightStyle(highlights[n].is_current).bg
                           /\ result[k].style.fg = from.style.fg
                           /\ result[k].style.add_modifier = from.style.add_modifier

\* C26: request_restart(i) only records i as the pending restart (no tab,
\* handle, process or event changes in the key handler); the request is
\* taken once, right after the key handler, and then is None; restart_process
\* starts only with a taken request, for the recorded tab; while a request is
\* pending no event is received or dispatched
C26_RestartDeferred ==
    [][/\ pending_restart = None /\ pending_restart' # None
           => /\ pc = "select" /\ pc' = "after_key"
              /\ UNCHANGED << tabs, children, proc, channel, restart_tab >>
       /\ pending_restart # None
           => /\ pc = "after_key"
              /\ tabs' = tabs
              /\ Len(channel') >= Len(channel)
              /\ \/ pending_restart' = pending_restart /\ pc' = pc
                 \/ /\ pending_restart' = None
                    /\ restart_tab' = pending_restart
                    /\ pc' = "restart_wait"
       /\ restart_tab = None /\ restart_tab' # None
           => pc = "after_key" /\ restart_tab' = pending_restart]_vars

\* restart_process runs for a taken request while events wait in the
\* channel: they are dispatched only after it
C26_Witness ==
    /\ pc = "restart_wait"
    /\ pending_restart = None
    /\ restart_tab # None
    /\ Len(channel) = ChannelCapacity

\* C28: kill_all and restart_process do not stop at a process that has
\* exited on its own: the wait on it returns, kill_all goes on, and
\* restart_process resets the tab and spawns; when the spawn succeeds a new
\* running process is tracked for the tab
C28_ExitedProcessTolerated ==
    [][/\ pc' = "restart_wait" /\ restart_old' # None
           => WaitReady(proc', restart_old'[1])
       /\ pc' = "kill_wait" => WaitReady(proc', children'[kill_cur'[1]])
       /\ pc = "restart_wait" /\ pc' # pc
           => /\ pc' = "restart_spawn"
              /\ tabs' = [tabs EXCEPT ![restart_tab[1]] = TabReset(@)]
       /\ pc = "restart_spawn" /\ pc' \notin {"restart_spawn", "restart_send"}
           => /\ restart_tab[1] \in DOMAIN children'
              /\ proc'[children'[restart_tab[1]].pid].state = "running"
              /\ restart_old # None
                  => children'[restart_tab[1]].pid # restart_old[1].pid]_vars

\* restart_process has waited for a process that had exited before it was
\* signalled, and has reset the tab
C28_Witness ==
    /\ pc = "restart_spawn"
    /\ restart_old # None
    /\ ~restart_old[1].was_running
    /\ proc[restart_old[1].pid].state = "reaped"

\* nothing is left to send or to dispatch for tab i, whose tracked process
\* has exited on its own
ExitedAndQuiet(i) ==
    /\ pc = "select"
    /\ channel = << >>
    /\ i \in DOMAIN children
    /\ ~children[i].waited
    /\ proc[children[i].pid].state = "zombie"
    /\ \A k \in Kinds : ReaderDone(children[i].pid, k)

\* C29: the spawn of a command that cannot run succeeds and its failure
\* shows as an Exited event with a non-zero code: once its shell has
\* exited and nothing is left to send or dispatch, the tab is Finished with
\* a non-zero exit code
C29_InvalidCommandFinishes ==
    \A i \in Tabs :
        ExitedAndQuiet(i)
            => tabs[i].status.tag = "Finished" /\ tabs[i].status.exit_code # 0

\* the number of "next" calls minus the number of "prev" calls
RECURSIVE NetMoves(_)
NetMoves(calls) ==
    IF calls = << >> THEN 0
    ELSE (IF Head(calls) = "next" THEN 1 ELSE -1) + NetMoves(Tail(calls))

\* C31: with n >= 1 tabs the active index stays in 0 .. n-1 and, after any
\* sequence of next_tab and prev_tab, is the number of next_tab calls minus
\* the number of prev_tab calls modulo n (each call undoes the other, n
\* next_tab calls return to the start); a next_tab moves from i to
\* (i + 1) mod n and a prev_tab to (i - 1) mod n; with no tabs the index
\* stays 0
C31_TabNavigationWraps ==
    /\ [](LET n == registry.len
              i == registry.active_index
          IN  IF n = 0 THEN i = 0
              ELSE /\ i \in 0 .. (n - 1)
                   /\ i = (NetMoves(registry.calls) + MaxTabCalls * n) % n)
    /\ [][LET n == registry.len
              i == registry.active_index
          IN  /\ n >= 1 /\ registry'.calls = Append(registry.calls, "next")
                  => registry'.active_index = (i + 1) % n
              /\ n >= 1 /\ registry'.calls = Append(registry.calls, "prev")
                  => registry'.active_index = (i + n - 1) % n]_vars

\* three next_tab calls on three tabs are back on the first tab, and a
\* prev_tab from there has wrapped to the last
C31_Witness ==
    /\ registry.len = 3
    /\ registry.calls = << "next", "next", "next", "prev" >>
    /\ registry.active_index = 2

\* C40: after any sequence of search, next_match, prev_match, clear,
\* clear_input and handle_input the current index is None exactly when
\* there are no matches and is otherwise below the number of matches;
\* current_match is Some exactly when there are matches; the displayed
\* index, when there is one, is in 1 .. match_count
C40_CurrentIndexInRange ==
    /\ search_state.current_index = None <=> search_state.matches = << >>
    /\ search_state.current_index # None
        => search_state.current_index[1] \in 0 .. (MatchCount(search_state) - 1)
    /\ CurrentMatch(search_state) # None <=> HasMatches(search_state)
    /\ CurrentMatchDisplay(search_state) # None
        => CurrentMatchDisplay(search_state)[1] \in 1 .. MatchCount(search_state)

\* the last of three matches is the current one, reached by prev_match,
\* and the input has been edited since the search
C40_Witness ==
    /\ MatchCount(search_state) = 3
    /\ search_state.current_index = Some(2)
    /\ CurrentMatchDisplay(search_state) = Some(3)
    /\ last_call.op = "handle_input"
    /\ searched # None /\ searched[1].query # search_state.query

\* the main task is inside tx.send(Failed).await of spawn_commands or of
\* restart_process
SendingFailed == pc \in {"spawn_send", "restart_send"}

\* C38: spawn_commands and restart_process always return: whenever the main
\* task is sending a Failed event the send can complete, that is, the
\* channel, which only the main task (then not receiving) drains, has room
C38_FailedSendCompletes == SendingFailed => CanSend(channel)

\* C39: no event of a process that restart_process has replaced is applied
\* to the tab: a line pushed to the buffer of tab i is a line of the
\* process tracked for tab i, and tab i becomes Failed only while no
\* process is tracked for it (its spawn has failed)
C39_NoStaleEvents ==
    [][\A i \in Tabs :
          /\ tabs'[i].buffer # tabs[i].buffer /\ tabs'[i].buffer # << >>
              => /\ i \in DOMAIN children
                 /\ tabs'[i].buffer[Len(tabs'[i].buffer)].pid = children[i].pid
          /\ tabs'[i].status # tabs[i].status /\ tabs'[i].status.tag = "Failed"
              => i \notin DOMAIN children]_vars

\* C36: of the highlights rendering builds for a drawn line of the active
\* tab while a query is set, the one of the current match and no other is
\* tagged current, also when the line holds several matches
C36_OnlyCurrentMatchTagged ==
    search_state.query # << >> =>
        \A line_idx \in RenderedLines(tabs[active]) :
            LET matches == SelectSeq(search_state.matches,
                                     LAMBDA m : m.line = line_idx)
                highlights == LineHighlights(search_state, line_idx)
            IN  \A n \in 1 .. Len(highlights) :
                    highlights[n].is_current
                        <=> CurrentMatch(search_state) = Some(matches[n])

\* a step pushes a line to tab i: the buffer changes and is not empty
PushStep(i) == tabs'[i].buffer # tabs[i].buffer /\ tabs'[i].buffer # << >>

\* C33: push_output appends the line (the buffer evicting its oldest line
\* when full) and then, with auto_scroll on, sets scroll_offset to
\* max(0, len - visible_lines); with auto_scroll off it leaves scroll_offset
\* as it was, also when the push evicts a line
C33_PushFollowsOnlyWithAutoScroll ==
    [][\A i \in Tabs :
          PushStep(i) =>
              LET len == Len(tabs'[i].buffer)
                  line == tabs'[i].buffer[len]
              IN  /\ tabs'[i].buffer = BufferPush(tabs[i].buffer, line)
                  /\ tabs'[i].auto_scroll = tabs[i].auto_scroll
                  /\ IF tabs[i].auto_scroll
                     THEN tabs'[i].scroll_offset =
                              (IF len >= tabs[i].visible_lines
                               THEN len - tabs[i].visible_lines ELSE 0)
                     ELSE tabs'[i].scroll_offset = tabs[i].scroll_offset]_vars

\* tab 0 does not follow the output and is scrolled to its first line
\* while pushes have evicted the line that was first
C33_Witness ==
    /\ ~tabs[0].auto_scroll
    /\ tabs[0].scroll_offset = 0
    /\ tabs[0].visible_lines = 1
    /\ Len(tabs[0].buffer) = MaxBufferLines
    /\ tabs[0].buffer[1].seq > 1

\* C34: after any sequence of Tab operations scroll_offset is at most
\* max(0, len - visible_lines), and at least 0
C34_ScrollOffsetInRange ==
    \A i \in Tabs :
        /\ tabs[i].scroll_offset >= 0
        /\ tabs[i].scroll_offset <= MaxScrollOffset(tabs[i])

\* C37: the dispatch of an event for tab index i changes no tab but tab i
\* and leaves the active tab, the mode, the search and the tracked
\* processes as they were; an event whose index is past the tabs changes
\* nothing
C37_DispatchChangesOnlyItsTab ==
    [][DispatchStep =>
          LET ev == RecvEvent(channel)
          IN  /\ \A j \in Tabs : j # ev.tab_index => tabs'[j] = tabs[j]
              /\ ev.tab_index \notin Tabs => tabs' = tabs
              /\ << active, mode, search_state, children >>'
                     = << active, mode, search_state, children >>]_vars

\* events have been dispatched (the channel is empty again) while tab 1
\* is active in Search mode with a match and a process is tracked: tab 1
\* has one line and is Running, tab 0 is Failed without output
C37_Witness ==
    /\ pc = "select"
    /\ channel = << >>
    /\ active = 1
    /\ mode = "Search"
    /\ Len(search_state.matches) = 1
    /\ children # << >>
    /\ tabs[1].status = Running /\ Len(tabs[1].buffer) = 1
    /\ tabs[0].status = Failed(SpawnError) /\ tabs[0].buffer = << >>

\* C35: in Search mode a key never navigates: a step that changes the
\* search leaves the query with one character typed (n and N as any other)
\* or deleted, or as it was, and the matches and the current index are
\* those of search(query, buffer of the active tab); it moves no tab and
\* stays in Search mode; the step back to Normal mode (Esc, Enter) leaves
\* the query, the matches and the current index as they were
C35_SearchModeKeysEditQuery ==
    [][mode = "Search" =>
          /\ mode' = "Normal" => search_state' = search_state
          /\ search_state' # search_state
              => /\ mode' = "Search"
                 /\ search_state'.query \in InputEdits(search_state.query)
                 /\ search_state' =
                        SearchStateSearch(search_state, search_state'.query,
                                          TabBuffer(tabs'[active]))
                 /\ active' = active
                 /\ tabs' = LoopTop]_vars

\* n has been typed in Search mode after N: the query is "Nn", nothing
\* matches, although the first line of the active tab holds n and N
C35_Witness ==
    /\ mode = "Search"
    /\ search_state.query = << "N", "n" >>
    /\ search_state.matches = << >>
    /\ tabs[active].buffer # << >>
    /\ tabs[active].buffer[1] = << "n", "N" >>

\* every tracked process has been waited for and is gone
AllKilled ==
    \A i \in DOMAIN children :
        children[i].waited /\ proc[children[i].pid].state = "reaped"

====
